---------------------------- MODULE Spec2Model ----------------------------
(***************************************************************************)
(* The conversation state manager of the chat UI (AIProvider in            *)
(* src/contexts/AIContext.tsx) with the provider gateway, its provider    *)
(* branches and its mock generator (src/services/aiService.ts), the        *)
(* persistence adapter (StorageService) and the file service               *)
(* (src/services/fileService.ts).                                          *)
(*                                                                         *)
(* React state is one variable per useState cell.  An async handler is     *)
(* split at its await: the synchronous part is one action, the             *)
(* continuation another.  The continuation runs in the closure of the      *)
(* render in which the handler was called, so every state value it reads   *)
(* (and every callback it calls, with that callback's own closure) is the  *)
(* value captured at call time; these captured values travel in the        *)
(* in-flight request record.  State setters called with a value overwrite, *)
(* setters called with an updater function apply to the latest state, in   *)
(* call order.                                                             *)
(*                                                                         *)
(* In the chat sessions the calls are explored one at a time: an operation *)
(* is invoked only when no call is suspended at the gateway; the sessions  *)
(* that delete conversations also act while a send is suspended, and the   *)
(* sessions through the chat area take every step its controls allow.  The *)
(* gateway's latency is any number of clock ticks, none included (the      *)
(* mock delay is a build-time setting, VITE_MOCK_API_DELAY).  The chat     *)
(* sessions run under the model selected at the start.                     *)
(*                                                                         *)
(* The store is the parsed content of the localStorage items: what         *)
(* JSON.stringify wrote, with every Date as its ISO string.  The pending   *)
(* auto-save is a variable of its own, which holds the closure of the      *)
(* render that set the timeout.  The services are also called on their     *)
(* own, each in a specification of its own.                                *)
(*                                                                         *)
(* Text is a TLA+ string (Len, \o and SubSeq act on strings as on          *)
(* sequences of characters).  An optional value (null / undefined) is the  *)
(* empty sequence, a present value x is <<x>>.                             *)
(***************************************************************************)
EXTENDS Integers, Sequences, FiniteSets

(***************************************************************************)
(* Bounds of the model.                                                    *)
(***************************************************************************)
\* Largest value of the millisecond clock; the session starts at SessionStart.
MaxTime == 2
\* Number of gateway invocations (generateResponse calls) explored.
MaxCalls == 1
\* Longest staged-attachment list explored.
MaxFiles == 1
\* Number of files picked at once.
MaxBatch == 2
\* Number of conversations the in-memory list may hold.
MaxConversations == 2

(***************************************************************************)
(* Program constants.                                                      *)
(***************************************************************************)
\* aiService.ts:448  Math.floor(Math.random() * 200) + 50
MockCompletionBase == 50
\* aiService.ts:447  Math.floor(prompt.length / 4)
CharsPerToken == 4
\* fileService.ts:173  content shorter than this is included whole
InlineContentLimit == 2000
\* fileService.ts:176  length of the preview of longer content
ContentPreviewLength == 1000
\* fileService.ts:164  bytes per KB in the size line
BytesPerKB == 1024
\* part_003:296  cutoffDate.setDate(cutoffDate.getDate() - daysToKeep)
MillisecondsPerDay == 86400000
\* fileService.ts:14  maxFileSize = 10 * 1024 * 1024
MaxFileSizeMB == 10
\* fileService.ts:150  rows.slice(0, 5)
PreviewRows == 5

None == <<>>
Some(x) == <<x>>
IsSome(o) == o # <<>>
Get(o) == o[1]

(***************************************************************************)
(* Text helpers: the JavaScript string operations the handlers use.        *)
(***************************************************************************)
Digit(d) ==
  CASE d = 0 -> "0" [] d = 1 -> "1" [] d = 2 -> "2" [] d = 3 -> "3"
    [] d = 4 -> "4" [] d = 5 -> "5" [] d = 6 -> "6" [] d = 7 -> "7"
    [] d = 8 -> "8" [] d = 9 -> "9"

\* Number.prototype.toString for a natural number.
RECURSIVE NumberToString(_)
NumberToString(n) ==
  IF n < 10 THEN Digit(n) ELSE NumberToString(n \div 10) \o Digit(n % 10)

\* String.prototype.slice(0, n).
Slice(s, n) == SubSeq(s, 1, IF Len(s) < n THEN Len(s) ELSE n)

IsWhitespace(c) == c \in {" ", "\t", "\n", "\r", "\f"}

RECURSIVE TrimStart(_)
TrimStart(s) ==
  IF Len(s) = 0 THEN s
  ELSE IF IsWhitespace(SubSeq(s, 1, 1)) THEN TrimStart(SubSeq(s, 2, Len(s)))
  ELSE s

RECURSIVE TrimEnd(_)
TrimEnd(s) ==
  IF Len(s) = 0 THEN s
  ELSE IF IsWhitespace(SubSeq(s, Len(s), Len(s))) THEN TrimEnd(SubSeq(s, 1, Len(s) - 1))
  ELSE s

\* String.prototype.trim.
Trim(s) == TrimEnd(TrimStart(s))

\* (x / BytesPerKB).toFixed(1): one decimal, rounded half up.
ToFixed1KB(bytes) ==
  LET tenths == (bytes * 20 + BytesPerKB) \div (2 * BytesPerKB)
  IN  NumberToString(tenths \div 10) \o "." \o Digit(tenths % 10)

(***************************************************************************)
(* The values the environment supplies.                                    *)
(***************************************************************************)
\* The first entry of mockModels, which is the initial selection.
ModelGpt4Turbo == [id |-> "gpt-4-turbo-preview", name |-> "GPT-4 Turbo", provider |-> "OpenAI"]
Models == {ModelGpt4Turbo}

\* What the user types into the input buffer.
Prompts == {" ", "Hello"}

\* Files as the ingestion adapter hands them over (ProcessedFile).
FileNotes ==
  [name |-> "notes.txt", type |-> "text/plain", size |-> 12,
   content |-> "buy milk now", metadata |-> None]
ProcessedFiles == {FileNotes}

\* The outcomes of Math.random().toString(36).substr(2, 9) explored.
RandomSuffixes == {"k3j", "x9p"}
\* The outcome explored for the id of a conversation created in the session.
ConversationSuffixes == {"c7m"}

\* The outcomes explored of generateMockResponse's three Math.random() draws,
\* <<Math.floor(r1 * 3), Math.floor(r2 * 200), Math.floor(r3 * 200)>>: every
\* template, the least and the greatest token draw, equal and unequal.
MockDraws == {<<0, 0, 0>>, <<1, 0, 199>>, <<2, 199, 0>>}

\* AIParameters; the fractional fields are held in hundredths (70 is 0.7).
defaultParameters ==
  [temperature |-> 70, maxTokens |-> 2048, topP |-> 100,
   presencePenalty |-> 0, frequencyPenalty |-> 0]

\* String(x) for a number x held in hundredths, as template literals render it.
HundredthsToString(h) ==
  LET a == IF h < 0 THEN -h ELSE h
      whole == NumberToString(a \div 100)
      frac == a % 100
      digits == IF frac = 0 THEN ""
                ELSE IF frac % 10 = 0 THEN "." \o Digit(frac \div 10)
                ELSE "." \o Digit(frac \div 10) \o Digit(frac % 10)
  IN  (IF h < 0 THEN "-" ELSE "") \o whole \o digits

DefaultTitle == "New Conversation"
\* AIContext.tsx:724  firstUserMessage.content.slice(0, 50)
TitleLength == 50

\* A conversation an earlier session left in the persistent store, as
\* getConversations returns it: a user message, the reply to it, and a second
\* user message whose reply never came.
StoredConversation ==
  [id |-> "0c7m", title |-> "Hi", createdAt |-> 0, updatedAt |-> 0,
   model |-> Some("GPT-4 Turbo"), totalTokens |-> Some(60),
   messages |->
     <<[id |-> "0k3j", role |-> "user", content |-> "Hi", timestamp |-> 0,
        model |-> Some("GPT-4 Turbo"), tokens |-> None, files |-> <<>>],
       [id |-> "0x9p", role |-> "assistant", content |-> "Hello there", timestamp |-> 0,
        model |-> Some("GPT-4 Turbo"),
        tokens |-> Some([prompt |-> 0, completion |-> 60, total |-> 60]),
        files |-> <<>>],
       [id |-> "0m2q", role |-> "user", content |-> "And now?", timestamp |-> 0,
        model |-> Some("GPT-4 Turbo"), tokens |-> None, files |-> <<>>]>>]

\* A conversation an earlier session saved with auto-title off: it still has
\* the placeholder title, and its first user message is 80 characters long.
DraftConversation ==
  [id |-> "0d4t", title |-> DefaultTitle, createdAt |-> 0, updatedAt |-> 0,
   model |-> Some("GPT-4 Turbo"), totalTokens |-> Some(70),
   messages |->
     <<[id |-> "0a1b", role |-> "user",
        content |-> "Please summarise the quarterly report and list the three main risks it mentions.",
        timestamp |-> 0, model |-> Some("GPT-4 Turbo"), tokens |-> None, files |-> <<>>],
       [id |-> "0c2d", role |-> "assistant", content |-> "Here is the summary.",
        timestamp |-> 0, model |-> Some("GPT-4 Turbo"),
        tokens |-> Some([prompt |-> 0, completion |-> 70, total |-> 70]),
        files |-> <<>>]>>]

\* Another such conversation, whose first user message is exactly TitleLength
\* characters long and has no reply.
NoteConversation ==
  [id |-> "0n5e", title |-> DefaultTitle, createdAt |-> 0, updatedAt |-> 0,
   model |-> Some("GPT-4 Turbo"), totalTokens |-> Some(0),
   messages |->
     <<[id |-> "0e3f", role |-> "user",
        content |-> "Which of the two drafts reads better, and why so?!",
        timestamp |-> 0, model |-> Some("GPT-4 Turbo"), tokens |-> None, files |-> <<>>],
       [id |-> "0g4h", role |-> "user", content |-> "Hello?",
        timestamp |-> 0, model |-> Some("GPT-4 Turbo"), tokens |-> None, files |-> <<>>]>>]

\* Date.now() when the provider mounts: later than anything in the store.
SessionStart == StoredConversation.updatedAt + 1

VARIABLES
  messages,               \* ChatMessage[]
  conversations,          \* Conversation[]
  currentConversationId,  \* string | null
  currentPrompt,          \* string
  uploadedFiles,          \* ProcessedFile[] (the staged attachments)
  selectedModel,          \* AIModel | null
  parameters,             \* AIParameters
  isLoading,
  isGenerating,
  error,                  \* string | null
  enableRealAPI,          \* build-time toggle VITE_ENABLE_REAL_API
  storageEnabled,         \* build-time toggle VITE_ENABLE_LOCAL_STORAGE
  store,                  \* localStorage 'ai-interface-conversations'
  now,                    \* Date.now(), in milliseconds
  inflight,               \* the calls suspended at `await generateResponse`
  gatewayLog,             \* observation: the generateResponse invocations so far
  fileUploadEnabled,      \* build-time toggle VITE_ENABLE_FILE_UPLOAD
  settings,               \* the settings state cell (parameters, autoSave, autoTitle)
  settingsStore,          \* localStorage 'ai-interface-settings'
  templateStore,          \* localStorage 'ai-interface-templates'
  saveTimer,              \* the pending auto-save timeout and its closure
  returned,               \* observation: the last service call and its result
  downloads,              \* the content of the last exported file
  picked,                 \* File[] (the files chosen in the upload dialog)
  deleted                 \* observation: the ids deleteConversation was called with

uiVars == <<messages, conversations, currentConversationId, currentPrompt,
            uploadedFiles, selectedModel, parameters, isLoading, isGenerating, error>>
vars == <<messages, conversations, currentConversationId, currentPrompt,
          uploadedFiles, selectedModel, parameters, isLoading, isGenerating, error,
          enableRealAPI, storageEnabled, store, now, inflight, gatewayLog,
          fileUploadEnabled, settings, settingsStore, templateStore, saveTimer,
          returned, downloads, picked, deleted>>
config == <<enableRealAPI, storageEnabled, fileUploadEnabled>>
\* What the operations of a chat session leave as they are.
otherVars ==
  <<settings, settingsStore, templateStore, returned, downloads, picked, deleted>>
\* The state of the provider, which a call made on a service leaves alone.
appVars == <<uiVars, config, settings, saveTimer, picked, deleted, inflight, gatewayLog>>

\* Number of generateResponse invocations so far.
gatewayCalls == Len(gatewayLog)

(***************************************************************************)
(* ChatMessage construction and the list operations of the handlers.       *)
(***************************************************************************)
\* Date.now().toString() + Math.random().toString(36).substr(2, 9)
NewId(t, suffix) == NumberToString(t) \o suffix

\* addMessage: the record it builds.  `files` is the uploadedFiles of the
\* closure addMessage was created in; an empty list stands for undefined.
NewMessage(message, files, t, suffix) ==
  [id |-> NewId(t, suffix), role |-> message.role, content |-> message.content,
   timestamp |-> t, model |-> message.model, tokens |-> message.tokens,
   files |-> files]

\* A list update that puts the new message first.
PrependMessage(prev, message, files, t, suffix) ==
  <<NewMessage(message, files, t, suffix)>> \o prev

\* addMessage: setMessages(prev => [...prev, newMessage]).
AddMessage(prev, message, files, t, suffix) ==
  Append(prev, NewMessage(message, files, t, suffix))

\* addMessage: if (uploadedFiles.length > 0) setUploadedFiles([]).
FilesAfterAddMessage(staged, files) == IF Len(files) > 0 THEN <<>> ELSE staged

\* messages.findLastIndex(msg => msg.role === 'assistant'), 1-based; 0 for -1.
RECURSIVE FindLastAssistant(_, _)
FindLastAssistant(msgs, i) ==
  IF i = 0 THEN 0
  ELSE IF msgs[i].role = "assistant" THEN i
  ELSE FindLastAssistant(msgs, i - 1)

LastAssistantIndex(msgs) == FindLastAssistant(msgs, Len(msgs))

\* A slice that keeps the most recent assistant message.
MessagesThroughLast(msgs) == SubSeq(msgs, 1, LastAssistantIndex(msgs))

\* messages.slice(0, lastAssistantIndex)
MessagesWithoutLast(msgs) == SubSeq(msgs, 1, LastAssistantIndex(msgs) - 1)

\* An early return that lacks the length test.
ReturnsEarlyWithoutAssistant(msgs) == LastAssistantIndex(msgs) = 0

\* regenerateLastMessage: the two early returns.
RegenerateReturnsEarly(msgs) == Len(msgs) < 2 \/ LastAssistantIndex(msgs) = 0

\* A removal that drops the matching message and everything after it.
RECURSIVE CutAtId(_, _)
CutAtId(msgs, id) ==
  IF Len(msgs) = 0 THEN <<>>
  ELSE IF Head(msgs).id # id THEN <<Head(msgs)>> \o CutAtId(Tail(msgs), id)
  ELSE <<>>

\* prev.filter(msg => msg.id !== id)
RECURSIVE FilterOutId(_, _)
FilterOutId(msgs, id) ==
  IF Len(msgs) = 0 THEN <<>>
  ELSE IF Head(msgs).id # id THEN <<Head(msgs)>> \o FilterOutId(Tail(msgs), id)
  ELSE FilterOutId(Tail(msgs), id)

\* A validation that tests the prompt without trimming it.
ValidationWithoutTrim(prompt, files, model) ==
  IF Len(prompt) = 0 /\ Len(files) = 0
  THEN Some("Please enter a message or upload files")
  ELSE IF model = None THEN Some("Please select a model")
  ELSE None

\* sendMessage: the two validations, in the order of the code.
ValidationError(prompt, files, model) ==
  IF Len(Trim(prompt)) = 0 /\ Len(files) = 0
  THEN Some("Please enter a message or upload files")
  ELSE IF model = None THEN Some("Please select a model")
  ELSE None

(***************************************************************************)
(* fileService.generatePromptContext                                       *)
(***************************************************************************)
\* The three-character Markdown code fence; the grave accent cannot be written
\* in a TLA+ string, so the apostrophe stands for it.
CodeFence == "'''"

EndsWith(s, suffix) ==
  Len(s) >= Len(suffix) /\ SubSeq(s, Len(s) - Len(suffix) + 1, Len(s)) = suffix

\* Array.prototype.join('\n')
RECURSIVE JoinLines(_)
JoinLines(items) ==
  IF Len(items) = 0 THEN ""
  ELSE IF Len(items) = 1 THEN items[1]
  ELSE items[1] \o "\n" \o JoinLines(Tail(items))

\* String.prototype.replace(part, ''): the first occurrence is cut out; an
\* empty part is found at the start.
ReplaceFirst(text, part) ==
  LET found == {i \in 1..(Len(text) - Len(part) + 1) :
                  SubSeq(text, i, i + Len(part) - 1) = part}
  IN  IF found = {} \/ Len(part) = 0 THEN text
      ELSE LET first == CHOOSE i \in found : \A j \in found : i <= j
           IN  SubSeq(text, 1, first - 1) \o SubSeq(text, first + Len(part), Len(text))

\* Array.prototype.join(', ')
RECURSIVE JoinComma(_)
JoinComma(items) ==
  IF Len(items) = 0 THEN ""
  ELSE IF Len(items) = 1 THEN items[1]
  ELSE items[1] \o ", " \o JoinComma(Tail(items))

FileContextEntry(file, index) ==
  "**File " \o NumberToString(index) \o ": " \o file.name \o "**\n"
  \o "- Type: " \o file.type \o "\n"
  \o "- Size: " \o ToFixed1KB(file.size) \o "KB\n"
  \o (IF IsSome(file.metadata) /\ EndsWith(file.name, ".csv")
      THEN "- CSV Data: " \o NumberToString(Get(file.metadata).rows) \o " rows, "
           \o NumberToString(Get(file.metadata).columns) \o " columns\n"
           \o "- Headers: " \o JoinComma(Get(file.metadata).headers) \o "\n"
      ELSE "")
  \o (IF Len(file.content) < InlineContentLimit
      THEN "- Content:\n" \o CodeFence \o "\n" \o file.content
           \o "\n" \o CodeFence \o "\n\n"
      ELSE "- Content Preview:\n" \o CodeFence \o "\n"
           \o Slice(file.content, ContentPreviewLength)
           \o "...\n" \o CodeFence \o "\n\n")

RECURSIVE FileContextEntries(_, _)
FileContextEntries(files, index) ==
  IF index > Len(files) THEN ""
  ELSE FileContextEntry(files[index], index) \o FileContextEntries(files, index + 1)

GeneratePromptContext(files) ==
  IF Len(files) = 0 THEN ""
  ELSE "I have " \o NumberToString(Len(files)) \o " file"
       \o (IF Len(files) > 1 THEN "s" ELSE "") \o " to analyze:\n\n"
       \o FileContextEntries(files, 1)
       \o "Please analyze these files and provide insights or answer any questions about them."

\* sendMessage: the content handed to the gateway as the final message.
MessageContent(prompt, files) ==
  IF Len(files) > 0
  THEN GeneratePromptContext(files)
       \o (IF Len(prompt) > 0 THEN "\n\nUser Question: " \o prompt ELSE "")
  ELSE prompt

(***************************************************************************)
(* The provider gateway (aiService.generateResponse).  An outcome is what  *)
(* the awaited promise settles to: an AIResponse, or a rejection           *)
(* (thrown = TRUE, error = the Error's message).                           *)
(***************************************************************************)
Resolved(success, content, err, usage) ==
  [thrown |-> FALSE, success |-> success, content |-> content, error |-> err,
   usage |-> usage]
Rejected(message) ==
  [thrown |-> TRUE, success |-> FALSE, content |-> "", error |-> Some(message),
   usage |-> None]

\* generateMockResponse: the three canned templates.  Each is given up to its
\* last interpolation; the fixed feature list that follows is cut.
MockTemplate(k, model, params, prompt) ==
  CASE k = 0 ->
         "Using " \o model.name \o " with temperature "
         \o HundredthsToString(params.temperature)
         \o ": This is a simulated response demonstrating the enhanced AI interface capabilities. \n\nYour query: \""
         \o Slice(prompt, 100) \o (IF Len(prompt) > 100 THEN "..." ELSE "") \o "\""
    [] k = 1 ->
         "Response from " \o model.name
         \o ": I've processed your request with the following enhanced capabilities:\n\n**Query Analysis**: \""
         \o Slice(prompt, 80) \o (IF Len(prompt) > 80 THEN "..." ELSE "")
         \o "\"\n**Model Settings**: Temperature: " \o HundredthsToString(params.temperature)
         \o ", Max Tokens: " \o NumberToString(params.maxTokens)
    [] k = 2 ->
         model.name
         \o " Analysis Complete:\n\n**Input Processing**: Successfully analyzed your prompt about \""
         \o Slice(prompt, 60) \o (IF Len(prompt) > 60 THEN "..." ELSE "")
         \o "\"\n**Configuration**: Using optimized parameters (T: "
         \o HundredthsToString(params.temperature)
         \o ", Max: " \o NumberToString(params.maxTokens) \o ")"

\* generateMockResponse: lastMessage?.content || ''
LastContent(input) == IF Len(input) = 0 THEN "" ELSE input[Len(input)].content

\* generateMockResponse: the usage object.  The code draws Math.random() once
\* for completionTokens and once more for totalTokens.
MockUsage(prompt, draw1, draw2) ==
  [promptTokens |-> Len(prompt) \div CharsPerToken,
   completionTokens |-> draw1 + MockCompletionBase,
   totalTokens |-> Len(prompt) \div CharsPerToken + draw2 + MockCompletionBase]

\* generateMockResponse.  A null model makes the template literals throw.
\* draws is the set of outcomes of its three Math.random() calls.
MockResponses(input, model, params, draws) ==
  IF model = None
  THEN {Rejected("Cannot read properties of null (reading 'name')")}
  ELSE {Resolved(TRUE, MockTemplate(d[1], Get(model), params, LastContent(input)), None,
                 Some(MockUsage(LastContent(input), d[2], d[3]))) : d \in draws}

\* model.provider.toLowerCase() for the providers of Models.
LowerCaseProvider(provider) ==
  CASE provider = "OpenAI" -> "openai"
    [] OTHER -> provider

RealProviders ==
  {"openai", "anthropic", "google", "huggingface", "cohere", "ollama", "groq"}

\* What a provider call can settle to: a reply with the provider's usage
\* numbers, or an Error thrown for a missing key or a non-success status,
\* which generateResponse's catch turns into {success: false, error}.
ProviderResponses ==
  {Resolved(TRUE, "Hello! How can I help?", None,
            Some([promptTokens |-> 9, completionTokens |-> 6, totalTokens |-> 15])),
   Resolved(FALSE, "", Some("OpenAI API key not configured"), None)}

\* generateResponse
GenerateResponses(realAPI, input, model, params, draws) ==
  IF ~realAPI THEN MockResponses(input, model, params, draws)
  ELSE IF model = None
  THEN {Resolved(FALSE, "", Some("Cannot read properties of null (reading 'provider')"), None)}
  ELSE IF LowerCaseProvider(Get(model).provider) \in RealProviders
  THEN ProviderResponses
  ELSE MockResponses(input, model, params, draws)

\* response.usage ? {prompt, completion, total} : undefined
TokensOf(usage) ==
  IF IsSome(usage)
  THEN Some([prompt |-> Get(usage).promptTokens,
             completion |-> Get(usage).completionTokens,
             total |-> Get(usage).totalTokens])
  ELSE None

\* The assistant message both continuations hand to addMessage.
AssistantMessage(response, model) ==
  [role |-> "assistant", content |-> response.content,
   model |-> IF IsSome(model) THEN Some(Get(model).name) ELSE None,
   tokens |-> TokensOf(response.usage)]

\* The error string a continuation surfaces for an outcome that is no success.
FailureMessage(response, fallback) ==
  IF response.thrown THEN response.error
  ELSE IF IsSome(response.error) /\ Len(Get(response.error)) > 0 THEN response.error
  ELSE Some(fallback)

(***************************************************************************)
(* Observation: the state a call started from.  A suspended call carries   *)
(* it; no operation reads it.                                              *)
(***************************************************************************)
Snapshot ==
  [messages |-> messages, conversations |-> conversations,
   currentConversationId |-> currentConversationId,
   currentPrompt |-> currentPrompt, uploadedFiles |-> uploadedFiles,
   selectedModel |-> selectedModel, isLoading |-> isLoading,
   isGenerating |-> isGenerating, error |-> error, gatewayCalls |-> gatewayCalls]

\* An entry of gatewayLog: the handler that invoked the gateway and the
\* length of the message list it was called on; and the entry once the
\* invocation has settled.
Invocation(kind) == [kind |-> kind, outcome |-> "pending", size |-> Len(messages)]
Settle(log, request, response) ==
  [log EXCEPT ![request.call.gatewayCalls + 1].outcome =
     IF ~response.thrown /\ response.success THEN "success" ELSE "failure"]

RemoveAt(requests, i) ==
  SubSeq(requests, 1, i - 1) \o SubSeq(requests, i + 1, Len(requests))

(***************************************************************************)
(* The persistence adapter.  The item 'ai-interface-conversations' is the  *)
(* JSON text of an array of conversations; the model holds the array that  *)
(* text denotes, in which a Date is the string Date.prototype.toISOString  *)
(* gives.  In memory a Date is its number of milliseconds.                 *)
(***************************************************************************)
DigitValue(c) ==
  CASE c = "0" -> 0 [] c = "1" -> 1 [] c = "2" -> 2 [] c = "3" -> 3
    [] c = "4" -> 4 [] c = "5" -> 5 [] c = "6" -> 6 [] c = "7" -> 7
    [] c = "8" -> 8 [] c = "9" -> 9

\* Date.prototype.toISOString, for an instant of the first minute of the epoch.
ToISOString(t) ==
  LET seconds == t \div 1000
      millis == t % 1000
  IN  "1970-01-01T00:00:"
        \o Digit(seconds \div 10) \o Digit(seconds % 10) \o "."
        \o Digit(millis \div 100) \o Digit((millis \div 10) % 10) \o Digit(millis % 10)
        \o "Z"

\* A parse that reads such a string to the second only.
NewDateToTheSecond(text) ==
  LET at(i) == DigitValue(SubSeq(text, i, i))
  IN  (at(18) * 10 + at(19)) * 1000

\* new Date(text).getTime(), for such a string.
NewDate(text) ==
  LET at(i) == DigitValue(SubSeq(text, i, i))
  IN  (at(18) * 10 + at(19)) * 1000 + at(21) * 100 + at(22) * 10 + at(23)

\* JSON.stringify and JSON.parse, as far as they change a message.
StringifyMessage(message) == [message EXCEPT !.timestamp = ToISOString(@)]
ReviveMessage(parsed) == [parsed EXCEPT !.timestamp = NewDate(@)]

\* JSON.stringify of a Conversation; and the revival getConversations does
\* on a parsed one.
Stringify(conversation) ==
  [conversation EXCEPT
     !.createdAt = ToISOString(@), !.updatedAt = ToISOString(@),
     !.messages = [i \in DOMAIN @ |-> StringifyMessage(@[i])]]
Revive(parsed) ==
  [parsed EXCEPT
     !.createdAt = NewDate(@), !.updatedAt = NewDate(@),
     !.messages = [i \in DOMAIN @ |-> ReviveMessage(@[i])]]

\* findIndex(c => c.id === id), counted from 1; 0 when there is none.
RECURSIVE IndexOfId(_, _, _)
IndexOfId(list, id, i) ==
  IF i > Len(list) THEN 0
  ELSE IF list[i].id = id THEN i
  ELSE IndexOfId(list, id, i + 1)

\* The item as setItem(JSON.stringify(getConversations())) would write it back.
Reread(stored) == [i \in DOMAIN stored |-> Stringify(Revive(stored[i]))]

\* storageService.saveConversation, given the JSON of the conversation passed:
\* the entry of that id is replaced, or a new entry is put in front; either
\* way its updatedAt is the time of the write.
WriteConversation(enabled, stored, written, t) ==
  IF ~enabled THEN stored
  ELSE LET current == Reread(stored)
           entry == [written EXCEPT !.updatedAt = ToISOString(t)]
           existingIndex == IndexOfId(current, written.id, 1)
       IN  IF existingIndex > 0 THEN [current EXCEPT ![existingIndex] = entry]
           ELSE <<entry>> \o current

\* storageService.saveConversation of a Conversation held in memory.
SaveConversation(enabled, stored, conversation, t) ==
  WriteConversation(enabled, stored, Stringify(conversation), t)

\* list.filter(c => c.id !== id)
WithoutId(list, id) == SelectSeq(list, LAMBDA c : c.id # id)

\* storageService.deleteConversation
StorageDeleteConversation(enabled, stored, id) ==
  IF ~enabled THEN stored ELSE WithoutId(Reread(stored), id)

(***************************************************************************)
(* The auto-save effect.  Its dependencies are messages,                   *)
(* currentConversationId and settings.autoSave: after a render in which    *)
(* one of them changed, the pending timeout is cleared and, with auto-save *)
(* on, a conversation active and a message in the list, a new one is set.  *)
(* The timeout calls the saveCurrentConversation of that render, so what   *)
(* it reads is what that render saw.  setMessages with a new array is a    *)
(* change of the dependency even when the contents are equal.              *)
(***************************************************************************)
\* What saveCurrentConversation closes over.
SaveClosure ==
  [currentConversationId |-> currentConversationId, conversations |-> conversations,
   messages |-> messages, selectedModel |-> selectedModel,
   autoTitle |-> settings.autoTitle]

\* The timeout after the effect has run in the current render.
AutoSaveTimer ==
  IF settings.autoSave /\ IsSome(currentConversationId) /\ Len(messages) > 0
  THEN Some(SaveClosure)
  ELSE None

(***************************************************************************)
(* Initial state: the useState initial values, then the mount effect,      *)
(* which reads the conversations from the store.                           *)
(***************************************************************************)
\* storageService.getConversations: the parsed item with every date revived.
GetConversations(enabled, stored) ==
  IF enabled THEN [i \in DOMAIN stored |-> Revive(stored[i])] ELSE <<>>

\* The settings record is absent (None) or holds the fields that were written;
\* a field that was never written is None.
\* storageService.getSettings: the defaults, overlaid with what is stored.
GetSettings(enabled, stored) ==
  LET record == Get(stored)
      present(field) == enabled /\ IsSome(stored) /\ IsSome(record[field])
  IN  [parameters |-> IF present("parameters") THEN Get(record.parameters)
                      ELSE defaultParameters,
       autoSave |-> IF present("autoSave") THEN Get(record.autoSave) ELSE TRUE,
       autoTitle |-> IF present("autoTitle") THEN record.autoTitle ELSE None]

\* The settings cell after the mount effect:
\* setSettings(prev => ({ ...prev, ...storedSettings })) on the useState value.
MountSettings(storedSettings) ==
  [parameters |-> storedSettings.parameters,
   autoSave |-> storedSettings.autoSave,
   autoTitle |-> IF IsSome(storedSettings.autoTitle) THEN Get(storedSettings.autoTitle)
                 ELSE TRUE]

\* storageService.saveSettings: { ...getSettings(), ...partial } is written.
\* A field partial does not carry is None.
SaveSettings(enabled, stored, partial) ==
  IF ~enabled THEN stored
  ELSE LET currentSettings == GetSettings(enabled, stored)
       IN  Some([parameters |-> IF IsSome(partial.parameters) THEN partial.parameters
                                ELSE Some(currentSettings.parameters),
                 autoSave |-> IF IsSome(partial.autoSave) THEN partial.autoSave
                              ELSE Some(currentSettings.autoSave),
                 autoTitle |-> IF IsSome(partial.autoTitle) THEN partial.autoTitle
                               ELSE currentSettings.autoTitle])

\* The provider after its mount effect, over the stores it found.
Mounted ==
  /\ messages = <<>>
  /\ conversations = GetConversations(storageEnabled, store)
  /\ currentConversationId = None
  /\ currentPrompt = ""
  /\ uploadedFiles = <<>>
  /\ selectedModel = Some(ModelGpt4Turbo)
  /\ parameters = GetSettings(storageEnabled, settingsStore).parameters
  /\ settings = MountSettings(GetSettings(storageEnabled, settingsStore))
  /\ isLoading = FALSE
  /\ isGenerating = FALSE
  /\ error = None
  /\ now = SessionStart
  /\ inflight = <<>>
  /\ gatewayLog = <<>>
  /\ saveTimer = None
  /\ returned = None
  /\ downloads = None
  /\ picked = <<>>
  /\ deleted = {}

\* A build with uploads on; with persistence on, an earlier session has left
\* one conversation and no settings or templates.
Init ==
  /\ storageEnabled \in BOOLEAN
  /\ enableRealAPI \in BOOLEAN
  /\ fileUploadEnabled = TRUE
  /\ store = IF storageEnabled THEN <<Stringify(StoredConversation)>> ELSE <<>>
  /\ settingsStore = None
  /\ templateStore = <<>>
  /\ Mounted

(***************************************************************************)
(* Operations of the context.                                              *)
(***************************************************************************)
\* The millisecond clock advances.
Tick ==
  /\ now < MaxTime
  /\ now' = now + 1
  /\ UNCHANGED <<uiVars, config, otherVars, store, inflight, gatewayLog, saveTimer>>

SetCurrentPrompt(prompt) ==
  /\ currentPrompt' = prompt
  /\ UNCHANGED <<inflight, saveTimer>>
  /\ UNCHANGED <<messages, conversations, currentConversationId, uploadedFiles,
                 selectedModel, parameters, isLoading, isGenerating, error,
                 config, otherVars, store, now, gatewayLog>>

\* The state cell is AIModel | null; the setter is the raw useState setter.
SetSelectedModel(model) ==
  /\ selectedModel' = model
  /\ UNCHANGED <<inflight, saveTimer>>
  /\ UNCHANGED <<messages, conversations, currentConversationId, currentPrompt,
                 uploadedFiles, parameters, isLoading, isGenerating, error,
                 config, otherVars, store, now, gatewayLog>>

\* addFiles, at the point its awaited batch is appended:
\* setUploadedFiles(prev => [...prev, ...processedFiles]).
AddFiles(processed) ==
  /\ Len(uploadedFiles) + Len(processed) <= MaxFiles
  /\ uploadedFiles' = uploadedFiles \o processed
  /\ UNCHANGED <<inflight, saveTimer>>
  /\ UNCHANGED <<messages, conversations, currentConversationId, currentPrompt,
                 selectedModel, parameters, isLoading, isGenerating, error,
                 config, otherVars, store, now, gatewayLog>>

\* createConversation: the Conversation it builds.
NewConversation(id, title, t) ==
  [id |-> id, title |-> IF Len(title) > 0 THEN title ELSE DefaultTitle,
   messages |-> <<>>, createdAt |-> t, updatedAt |-> t,
   model |-> None, totalTokens |-> None]

\* createConversation(), called on its own (the "new conversation" action).
CreateConversation(suffix) ==
  /\ Len(conversations) < MaxConversations
  /\ conversations' = <<NewConversation(NewId(now, suffix), "", now)>> \o conversations
  /\ currentConversationId' = Some(NewId(now, suffix))
  /\ messages' = <<>>
  /\ uploadedFiles' = <<>>
  /\ UNCHANGED inflight
  /\ UNCHANGED <<currentPrompt, selectedModel, parameters, isLoading, isGenerating,
                 error, config, otherVars, store, now, gatewayLog>>
  /\ saveTimer' = AutoSaveTimer'

\* conversations.find(c => c.id === id)
RECURSIVE FindConversation(_, _)
FindConversation(list, id) ==
  IF Len(list) = 0 THEN None
  ELSE IF Head(list).id = id THEN Some(Head(list))
  ELSE FindConversation(Tail(list), id)

\* loadConversation(id)
LoadConversation(id) ==
  LET inMemory == FindConversation(conversations, id)
      found == IF IsSome(inMemory) THEN inMemory
               ELSE FindConversation(GetConversations(storageEnabled, store), id)
  IN
  /\ IF IsSome(found)
     THEN /\ currentConversationId' = Some(id)
          /\ messages' = Get(found).messages
          /\ uploadedFiles' = <<>>
     ELSE UNCHANGED <<currentConversationId, messages, uploadedFiles>>
  /\ UNCHANGED <<conversations, currentPrompt, selectedModel, parameters, isLoading,
                 isGenerating, error, config, otherVars, store, now, inflight, gatewayLog>>
  /\ saveTimer' = IF IsSome(found) THEN AutoSaveTimer' ELSE saveTimer

\* deleteMessage(id)
DeleteMessage(id) ==
  /\ messages' = FilterOutId(messages, id)
  /\ UNCHANGED inflight
  /\ UNCHANGED <<conversations, currentConversationId, currentPrompt, uploadedFiles,
                 selectedModel, parameters, isLoading, isGenerating, error,
                 config, otherVars, store, now, gatewayLog>>
  /\ saveTimer' = AutoSaveTimer'

\* editMessage(id, content)
EditMessage(id, content) ==
  /\ messages' =
       [i \in DOMAIN messages |->
          IF messages[i].id = id
          THEN [messages[i] EXCEPT !.content = content, !.timestamp = now]
          ELSE messages[i]]
  /\ UNCHANGED inflight
  /\ UNCHANGED <<conversations, currentConversationId, currentPrompt, uploadedFiles,
                 selectedModel, parameters, isLoading, isGenerating, error,
                 config, otherVars, store, now, gatewayLog>>
  /\ saveTimer' = AutoSaveTimer'

\* clearMessages() that would also delete the active conversation.
ClearMessagesAndDelete ==
  LET id == IF IsSome(currentConversationId) THEN Get(currentConversationId) ELSE "" IN
  /\ messages' = <<>>
  /\ uploadedFiles' = <<>>
  /\ currentConversationId' = None
  /\ conversations' = WithoutId(conversations, id)
  /\ store' = StorageDeleteConversation(storageEnabled, store, id)
  /\ UNCHANGED <<currentPrompt, selectedModel, parameters, isLoading, isGenerating,
                 error, config, otherVars, now, inflight, gatewayLog>>
  /\ saveTimer' = AutoSaveTimer'

\* clearMessages() under an effect that would leave its timeout pending.
ClearMessagesKeepingTimer ==
  /\ messages' = <<>>
  /\ uploadedFiles' = <<>>
  /\ currentConversationId' = None
  /\ UNCHANGED <<conversations, currentPrompt, selectedModel, parameters, isLoading,
                 isGenerating, error, config, otherVars, store, now, inflight,
                 gatewayLog, saveTimer>>

\* clearMessages()
ClearMessages ==
  /\ messages' = <<>>
  /\ uploadedFiles' = <<>>
  /\ currentConversationId' = None
  /\ UNCHANGED <<conversations, currentPrompt, selectedModel, parameters, isLoading,
                 isGenerating, error, config, otherVars, store, now, inflight,
                 gatewayLog>>
  /\ saveTimer' = AutoSaveTimer'

\* messages.reduce((total, msg) => total + (msg.tokens?.total || 0), 0)
RECURSIVE TotalTokens(_)
TotalTokens(msgs) ==
  IF Len(msgs) = 0 THEN 0
  ELSE (IF IsSome(Head(msgs).tokens) THEN Get(Head(msgs).tokens).total ELSE 0)
       + TotalTokens(Tail(msgs))

\* messages.find(m => m.role === 'user')
RECURSIVE FirstUserMessage(_)
FirstUserMessage(msgs) ==
  IF Len(msgs) = 0 THEN None
  ELSE IF Head(msgs).role = "user" THEN Some(Head(msgs))
  ELSE FirstUserMessage(Tail(msgs))

\* The title saveCurrentConversation gives the conversation it saves.
SavedTitle(title, msgs, autoTitle) ==
  IF autoTitle /\ title = DefaultTitle /\ Len(msgs) >= 2 /\ IsSome(FirstUserMessage(msgs))
  THEN LET content == Get(FirstUserMessage(msgs)).content
       IN  Slice(content, TitleLength) \o (IF Len(content) > TitleLength THEN "..." ELSE "")
  ELSE title

\* The updatedConversation saveCurrentConversation builds in closure c.
UpdatedConversation(conversation, c, t) ==
  [conversation EXCEPT
     !.messages = c.messages,
     !.updatedAt = t,
     !.model = IF IsSome(c.selectedModel) THEN Some(Get(c.selectedModel).name) ELSE None,
     !.totalTokens = Some(TotalTokens(c.messages)),
     !.title = SavedTitle(conversation.title, c.messages, c.autoTitle)]

\* prev.map(c => c.id === id ? replacement : c)
ReplaceById(list, id, replacement) ==
  [i \in DOMAIN list |-> IF list[i].id = id THEN replacement ELSE list[i]]

\* saveCurrentConversation as the render of closure c defined it: what it
\* does to the conversation list and to the store.
SaveCurrentConversation(c) ==
  LET found == IF IsSome(c.currentConversationId)
               THEN FindConversation(c.conversations, Get(c.currentConversationId))
               ELSE None
  IN  IF c.currentConversationId = None \/ Len(c.messages) = 0 \/ found = None
      THEN UNCHANGED <<conversations, store>>
      ELSE LET updatedConversation == UpdatedConversation(Get(found), c, now)
           IN  /\ conversations' = ReplaceById(conversations, Get(c.currentConversationId),
                                               updatedConversation)
               /\ store' = SaveConversation(storageEnabled, store, updatedConversation, now)

\* saveCurrentConversation(), called from the current render.
SaveNow ==
  /\ SaveCurrentConversation(SaveClosure)
  /\ UNCHANGED <<messages, currentConversationId, currentPrompt, uploadedFiles,
                 selectedModel, parameters, isLoading, isGenerating, error, config,
                 otherVars, now, inflight, gatewayLog, saveTimer>>

\* The auto-save timeout fires: saveCurrentConversation of the render that
\* set it.
AutoSave ==
  /\ IsSome(saveTimer)
  /\ SaveCurrentConversation(Get(saveTimer))
  /\ saveTimer' = None
  /\ UNCHANGED <<messages, currentConversationId, currentPrompt, uploadedFiles,
                 selectedModel, parameters, isLoading, isGenerating, error, config,
                 otherVars, now, inflight, gatewayLog>>

\* deleteConversation(id) that would leave the session on the conversation.
DeleteConversationOnly(id) ==
  /\ conversations' = WithoutId(conversations, id)
  /\ store' = StorageDeleteConversation(storageEnabled, store, id)
  /\ deleted' = deleted \cup {id}
  /\ UNCHANGED <<currentPrompt, selectedModel, parameters, isLoading, isGenerating,
                 error, config, settings, settingsStore, templateStore, returned, downloads, picked, now,
                 inflight, gatewayLog>>
  /\ UNCHANGED <<currentConversationId, messages, uploadedFiles, saveTimer>>

\* deleteConversation(id)
DeleteConversation(id) ==
  /\ conversations' = WithoutId(conversations, id)
  /\ store' = StorageDeleteConversation(storageEnabled, store, id)
  /\ deleted' = deleted \cup {id}
  /\ UNCHANGED <<currentPrompt, selectedModel, parameters, isLoading, isGenerating,
                 error, config, settings, settingsStore, templateStore, returned, downloads, picked, now,
                 inflight, gatewayLog>>
  /\ IF currentConversationId = Some(id)
     THEN /\ currentConversationId' = None
          /\ messages' = <<>>
          /\ uploadedFiles' = <<>>
          /\ saveTimer' = AutoSaveTimer'
     ELSE UNCHANGED <<currentConversationId, messages, uploadedFiles, saveTimer>>

\* renameConversation(id, title)
RenameConversation(id, title) ==
  LET found == FindConversation(conversations, id) IN
  /\ conversations' =
       [i \in DOMAIN conversations |->
          IF conversations[i].id = id
          THEN [conversations[i] EXCEPT !.title = title, !.updatedAt = now]
          ELSE conversations[i]]
  /\ store' =
       IF IsSome(found)
       THEN SaveConversation(storageEnabled, store,
                             [Get(found) EXCEPT !.title = title, !.updatedAt = now], now)
       ELSE store
  /\ UNCHANGED <<messages, currentConversationId, currentPrompt, uploadedFiles,
                 selectedModel, parameters, isLoading, isGenerating, error, config,
                 otherVars, now, inflight, gatewayLog, saveTimer>>

\* { ...base, ...params } for AIParameters; a field params does not carry
\* is None.
MergeParameters(base, params) ==
  [field \in DOMAIN base |->
     IF IsSome(params[field]) THEN Get(params[field]) ELSE base[field]]

\* An update that spreads the given fields over the default parameters.
UpdateParametersOverDefaults(params) ==
  LET newParams == MergeParameters(defaultParameters, params) IN
  /\ parameters' = newParams
  /\ settingsStore' =
       SaveSettings(storageEnabled, settingsStore,
                    [parameters |-> Some(newParams), autoSave |-> None, autoTitle |-> None])
  /\ UNCHANGED <<messages, conversations, currentConversationId, currentPrompt, uploadedFiles,
                 selectedModel, isLoading, isGenerating, error, config, settings, store,
                 templateStore, returned, downloads, picked, deleted, now, inflight, gatewayLog,
                 saveTimer>>

\* updateParameters(params)
UpdateParameters(params) ==
  LET newParams == MergeParameters(parameters, params) IN
  /\ parameters' = newParams
  /\ settingsStore' =
       SaveSettings(storageEnabled, settingsStore,
                    [parameters |-> Some(newParams), autoSave |-> None, autoTitle |-> None])
  /\ UNCHANGED <<messages, conversations, currentConversationId, currentPrompt, uploadedFiles,
                 selectedModel, isLoading, isGenerating, error, config, settings, store,
                 templateStore, returned, downloads, picked, deleted, now, inflight, gatewayLog,
                 saveTimer>>

\* resetParameters()
ResetParameters ==
  /\ parameters' = defaultParameters
  /\ settingsStore' =
       SaveSettings(storageEnabled, settingsStore,
                    [parameters |-> Some(defaultParameters), autoSave |-> None,
                     autoTitle |-> None])
  /\ UNCHANGED <<messages, conversations, currentConversationId, currentPrompt, uploadedFiles,
                 selectedModel, isLoading, isGenerating, error, config, settings, store,
                 templateStore, returned, downloads, picked, deleted, now, inflight, gatewayLog,
                 saveTimer>>

\* The page is loaded anew: the provider is constructed and its mount
\* effect runs over the stores as they are.  What was in flight is gone
\* with the page.
Reload ==
  /\ messages' = <<>>
  /\ conversations' = GetConversations(storageEnabled, store)
  /\ currentConversationId' = None
  /\ currentPrompt' = ""
  /\ uploadedFiles' = <<>>
  /\ selectedModel' = Some(ModelGpt4Turbo)
  /\ parameters' = GetSettings(storageEnabled, settingsStore).parameters
  /\ settings' = MountSettings(GetSettings(storageEnabled, settingsStore))
  /\ isLoading' = FALSE
  /\ isGenerating' = FALSE
  /\ error' = None
  /\ inflight' = <<>>
  /\ saveTimer' = None
  /\ picked' = <<>>
  /\ UNCHANGED <<config, store, settingsStore, templateStore, returned, downloads, deleted, now,
                 gatewayLog>>

\* updateSettings(newSettings); a field newSettings does not carry is None.
UpdateSettings(newSettings) ==
  LET updated ==
        [parameters |-> settings.parameters,
         autoSave |-> IF IsSome(newSettings.autoSave) THEN Get(newSettings.autoSave)
                      ELSE settings.autoSave,
         autoTitle |-> IF IsSome(newSettings.autoTitle) THEN Get(newSettings.autoTitle)
                       ELSE settings.autoTitle]
  IN
  /\ settings' = updated
  /\ settingsStore' =
       SaveSettings(storageEnabled, settingsStore,
                    [parameters |-> Some(updated.parameters),
                     autoSave |-> Some(updated.autoSave),
                     autoTitle |-> Some(updated.autoTitle)])
  /\ UNCHANGED <<uiVars, config, store, templateStore, returned, downloads, picked, deleted, now, inflight,
                 gatewayLog>>
  /\ saveTimer' = IF updated.autoSave # settings.autoSave THEN AutoSaveTimer' ELSE saveTimer

\* The closure of an async handler suspended at `await generateResponse`:
\* the gateway's arguments, and the uploadedFiles its addMessage closes over.
\* call is observation.
Request(kind, input, files) ==
  [kind |-> kind, input |-> input, model |-> selectedModel,
   parameters |-> parameters, files |-> files, call |-> Snapshot]

\* sendMessage's own 'temp' message, the last of conversationMessages.
TempMessage(content, t) ==
  [id |-> "temp", role |-> "user", content |-> content, timestamp |-> t,
   model |-> None, tokens |-> None, files |-> <<>>]

\* sendMessage, up to its await, while fewer than limit calls of the gateway
\* have been made.
SendMessageWithin(limit, suffix, conversationSuffix) ==
  LET invalid == ValidationError(currentPrompt, uploadedFiles, selectedModel)
      userMessage == [role |-> "user", content |-> currentPrompt,
                      model |-> Some(Get(selectedModel).name), tokens |-> None]
      creates == currentConversationId = None
  IN
  IF IsSome(invalid)
  THEN /\ error' = invalid
       /\ UNCHANGED <<inflight, saveTimer>>
       /\ UNCHANGED <<messages, conversations, currentConversationId, currentPrompt,
                      uploadedFiles, selectedModel, parameters, isLoading,
                      isGenerating, config, otherVars, store, now, gatewayLog>>
  ELSE /\ gatewayCalls < limit
       \* addMessage(...) appends; createConversation(), when it runs, then
       \* overwrites with setMessages([]) and setUploadedFiles([]).
       /\ messages' =
            IF creates THEN <<>>
            ELSE AddMessage(messages, userMessage, uploadedFiles, now, suffix)
       /\ uploadedFiles' =
            IF creates THEN <<>>
            ELSE FilesAfterAddMessage(uploadedFiles, uploadedFiles)
       /\ conversations' =
            IF creates
            THEN <<NewConversation(NewId(now, conversationSuffix), "", now)>> \o conversations
            ELSE conversations
       /\ currentConversationId' =
            IF creates THEN Some(NewId(now, conversationSuffix))
            ELSE currentConversationId
       /\ currentPrompt' = ""
       /\ isLoading' = TRUE
       /\ isGenerating' = TRUE
       /\ error' = None
       /\ inflight' =
            Append(inflight,
                   Request("send",
                           Append(messages,
                                  TempMessage(MessageContent(currentPrompt, uploadedFiles), now)),
                           uploadedFiles))
       /\ gatewayLog' = Append(gatewayLog, Invocation("send"))
       /\ UNCHANGED <<selectedModel, parameters, config, otherVars, store, now>>
       /\ saveTimer' = AutoSaveTimer'

\* sendMessage, up to its await.
SendMessage(suffix, conversationSuffix) ==
  SendMessageWithin(MaxCalls, suffix, conversationSuffix)

\* sendMessage, from the gateway's answer to the end of its finally block.
SendMessageResume(i, response, suffix) ==
  LET request == inflight[i] IN
  /\ request.kind = "send"
  /\ IF ~response.thrown /\ response.success
     THEN /\ messages' = AddMessage(messages, AssistantMessage(response, request.model),
                                    request.files, now, suffix)
          /\ uploadedFiles' = FilesAfterAddMessage(uploadedFiles, request.files)
          /\ UNCHANGED error
     ELSE /\ error' = FailureMessage(response, "Failed to generate response")
          /\ UNCHANGED <<messages, uploadedFiles>>
  /\ isLoading' = FALSE
  /\ isGenerating' = FALSE
  /\ inflight' = RemoveAt(inflight, i)
  /\ gatewayLog' = Settle(gatewayLog, request, response)
  /\ UNCHANGED <<conversations, currentConversationId, currentPrompt, selectedModel,
                 parameters, config, otherVars, store, now>>
  /\ saveTimer' = IF ~response.thrown /\ response.success THEN AutoSaveTimer' ELSE saveTimer

\* regenerateLastMessage, up to its await, while fewer than limit calls of
\* the gateway have been made.
RegenerateLastMessageWithin(limit) ==
  IF RegenerateReturnsEarly(messages)
  THEN UNCHANGED vars
  ELSE /\ gatewayCalls < limit
       /\ messages' = MessagesWithoutLast(messages)
       /\ isGenerating' = TRUE
       /\ inflight' =
            Append(inflight,
                   Request("regenerate", MessagesWithoutLast(messages), uploadedFiles))
       /\ gatewayLog' = Append(gatewayLog, Invocation("regenerate"))
       /\ UNCHANGED <<conversations, currentConversationId, currentPrompt,
                      uploadedFiles, selectedModel, parameters, isLoading, error,
                      config, otherVars, store, now>>
       /\ saveTimer' = AutoSaveTimer'

\* regenerateLastMessage, up to its await.
RegenerateLastMessage == RegenerateLastMessageWithin(MaxCalls)

\* regenerateLastMessage, from the gateway's answer to the end of its finally.
RegenerateResume(i, response, suffix) ==
  LET request == inflight[i] IN
  /\ request.kind = "regenerate"
  /\ IF ~response.thrown /\ response.success
     THEN /\ messages' = AddMessage(messages, AssistantMessage(response, request.model),
                                    request.files, now, suffix)
          /\ uploadedFiles' = FilesAfterAddMessage(uploadedFiles, request.files)
          /\ UNCHANGED error
     ELSE /\ error' = FailureMessage(response, "Failed to regenerate response")
          /\ UNCHANGED <<messages, uploadedFiles>>
  /\ isGenerating' = FALSE
  /\ inflight' = RemoveAt(inflight, i)
  /\ gatewayLog' = Settle(gatewayLog, request, response)
  /\ UNCHANGED <<conversations, currentConversationId, currentPrompt, selectedModel,
                 parameters, isLoading, config, otherVars, store, now>>
  /\ saveTimer' = IF ~response.thrown /\ response.success THEN AutoSaveTimer' ELSE saveTimer

\* The identifiers deleteMessage is called with: every id a message of the
\* store or of the session can have, and one no message has.
DeleteTargets ==
  {StoredConversation.messages[i].id : i \in DOMAIN StoredConversation.messages}
  \cup {NewId(t, suffix) : t \in SessionStart..MaxTime, suffix \in RandomSuffixes}
  \cup {"absent"}

\* No call is suspended at the gateway.
Idle == Len(inflight) = 0

\* What the gateway can answer a suspended call with.
Answers(request, draws) ==
  GenerateResponses(enableRealAPI, request.input, request.model, request.parameters,
                    draws)

(***************************************************************************)
(* The steps of a session.  Every call runs to completion before the next  *)
(* operation is invoked; only the clock moves while a call waits for the   *)
(* gateway.                                                                *)
(***************************************************************************)
TypePrompt == Idle /\ \E prompt \in Prompts : SetCurrentPrompt(prompt)

PickModel ==
  Idle /\ \E model \in {None} \cup {Some(m) : m \in Models} : SetSelectedModel(model)

StageFile == Idle /\ \E file \in ProcessedFiles : AddFiles(<<file>>)

StartConversation == Idle /\ \E suffix \in ConversationSuffixes : CreateConversation(suffix)

OpenConversation == Idle /\ \E id \in {StoredConversation.id, "absent"} : LoadConversation(id)

RemoveMessage == Idle /\ \E id \in DeleteTargets : DeleteMessage(id)

Send(suffixes) ==
  Idle /\ \E suffix \in suffixes, conversationSuffix \in ConversationSuffixes :
            SendMessage(suffix, conversationSuffix)

Regenerate == Idle /\ RegenerateLastMessage

SendContinue(suffixes, draws) ==
  \E i \in DOMAIN inflight, suffix \in suffixes :
    \E response \in Answers(inflight[i], draws) : SendMessageResume(i, response, suffix)

RegenerateContinue(suffixes, draws) ==
  \E i \in DOMAIN inflight, suffix \in suffixes :
    \E response \in Answers(inflight[i], draws) : RegenerateResume(i, response, suffix)

\* Chat sessions with every outcome of the random draws, under the model
\* selected at the start.
Next ==
  \/ Tick
  \/ TypePrompt
  \/ StageFile
  \/ StartConversation
  \/ OpenConversation
  \/ RemoveMessage
  \/ Send(RandomSuffixes)
  \/ Regenerate
  \/ SendContinue(RandomSuffixes, MockDraws)
  \/ RegenerateContinue(RandomSuffixes, MockDraws)

Spec == Init /\ [][Next]_vars

\* Sessions that open the stored conversation, remove messages and
\* regenerate.
HistoryNext ==
  \/ Tick
  \/ PickModel
  \/ OpenConversation
  \/ RemoveMessage
  \/ Regenerate
  \/ RegenerateContinue(RandomSuffixes, MockDraws)

HistorySpec == Init /\ [][HistoryNext]_vars

\* One outcome of the random draws, for the sessions below.
OneSuffix == {"k3j"}
OneDraw == {<<0, 0, 0>>}

\* Sessions that fill in the input (prompt, model, staged files), pick a
\* conversation and send, all within one millisecond.
InputNext ==
  \/ TypePrompt
  \/ PickModel
  \/ StageFile
  \/ StartConversation
  \/ OpenConversation
  \/ Send(OneSuffix)
  \/ SendContinue(OneSuffix, OneDraw)

InputSpec == Init /\ [][InputNext]_vars

(***************************************************************************)
(* Sessions that save, rename and delete conversations.  The gateway is    *)
(* the mock; persistence, where it is on, finds two conversations with the *)
(* placeholder title in the store.  All of it happens within one           *)
(* millisecond.                                                            *)
(***************************************************************************)
StoredIds == {DraftConversation.id, NoteConversation.id}

SavingInit ==
  /\ storageEnabled \in BOOLEAN
  /\ enableRealAPI = FALSE
  /\ fileUploadEnabled = TRUE
  /\ store = IF storageEnabled
             THEN <<Stringify(DraftConversation), Stringify(NoteConversation)>>
             ELSE <<>>
  /\ settingsStore = None
  /\ templateStore = <<>>
  /\ Mounted

OpenStored == Idle /\ \E id \in StoredIds : LoadConversation(id)

Clear == ClearMessages

Remove == \E id \in StoredIds : DeleteConversation(id)

Rename == \E id \in StoredIds \cup {"absent"} : RenameConversation(id, "Trip")

SetAutoTitle ==
  \E on \in BOOLEAN : UpdateSettings([autoSave |-> None, autoTitle |-> Some(on)])

\* Sessions that rename, clear and save the stored conversations.
TitleNext ==
  \/ StageFile
  \/ OpenStored
  \/ Clear
  \/ SaveNow
  \/ AutoSave
  \/ Rename
  \/ SetAutoTitle

TitleSpec == SavingInit /\ [][TitleNext]_vars

\* Sessions that delete conversations, also while a send waits for the
\* gateway or an auto-save is pending.
DeleteNext ==
  \/ StageFile
  \/ OpenStored
  \/ Send(OneSuffix)
  \/ SendContinue(OneSuffix, OneDraw)
  \/ AutoSave
  \/ Remove
  \/ Rename

DeleteSpec == SavingInit /\ [][DeleteNext]_vars

\* The identifiers of the messages the stored conversations hold.
StoredMessageIds ==
  {c.messages[i].id : c \in {DraftConversation, NoteConversation}, i \in 1..2}

RemoveStoredMessage == \E id \in StoredMessageIds : DeleteMessage(id)

EditStoredMessage == \E id \in StoredMessageIds : EditMessage(id, "Thanks")

SetAutoSave ==
  \E on \in BOOLEAN : UpdateSettings([autoSave |-> Some(on), autoTitle |-> None])

\* Sessions that change the message list of a stored conversation (append
\* by a regenerated reply, edit, delete, truncation by regenerate), switch
\* auto-save and leave the conversation, while the auto-save timeout fires
\* when it is due.
AutoSaveNext ==
  \/ OpenStored
  \/ RemoveStoredMessage
  \/ EditStoredMessage
  \/ Regenerate
  \/ RegenerateContinue(OneSuffix, OneDraw)
  \/ Clear
  \/ SetAutoSave
  \/ AutoSave

AutoSaveSpec == SavingInit /\ [][AutoSaveNext]_vars

\* The same sessions in which a timeout that stays pending fires: the
\* message list is eventually left alone for two seconds.
AutoSaveFairSpec == AutoSaveSpec /\ WF_vars(AutoSave)

(***************************************************************************)
(* Sessions through the chat area.  The prompt box and the send button are  *)
(* disabled while isLoading; the send button also while there is nothing to *)
(* send or no model; the regenerate item while isGenerating or while the    *)
(* list holds no assistant message.  Two calls of the gateway are made at   *)
(* most.                                                                    *)
(***************************************************************************)
ChatAreaCalls == 2

\* messages.filter(m => m.role === 'assistant').length === 0
NoAssistantMessage(msgs) == \A i \in DOMAIN msgs : msgs[i].role # "assistant"

SendDisabled ==
  \/ Len(Trim(currentPrompt)) = 0 /\ Len(uploadedFiles) = 0
  \/ isLoading
  \/ selectedModel = None

RegenerateDisabled == isGenerating \/ NoAssistantMessage(messages)

TypeInBox == ~isLoading /\ \E prompt \in Prompts : SetCurrentPrompt(prompt)

OpenFromList == \E id \in StoredIds : LoadConversation(id)

ClickSend ==
  /\ ~SendDisabled
  /\ \E conversationSuffix \in ConversationSuffixes :
       SendMessageWithin(ChatAreaCalls, "k3j", conversationSuffix)

ClickRegenerate == ~RegenerateDisabled /\ RegenerateLastMessageWithin(ChatAreaCalls)

ChatAreaNext ==
  \/ TypeInBox
  \/ OpenFromList
  \/ ClickSend
  \/ ClickRegenerate
  \/ SendContinue({"x9p"}, OneDraw)
  \/ RegenerateContinue({"x9p"}, OneDraw)

ChatAreaSpec == SavingInit /\ [][ChatAreaNext]_vars

\* An update of the parameters that carries nothing.
NoParameters ==
  [temperature |-> None, maxTokens |-> None, topP |-> None,
   presencePenalty |-> None, frequencyPenalty |-> None]

\* What updateParameters is called with: one field, at the ends of its
\* slider and outside of them, or two fields at once.  Fractions are in
\* hundredths.
ParameterUpdates ==
  {[NoParameters EXCEPT !.temperature = Some(t)] : t \in {0, 200, 250}}
  \cup {[NoParameters EXCEPT !.topP = Some(p)] : p \in {0, 100}}
  \cup {[NoParameters EXCEPT !.maxTokens = Some(m)] : m \in {1, 4096}}
  \cup {[NoParameters EXCEPT !.presencePenalty = Some(-200)],
        [NoParameters EXCEPT !.frequencyPenalty = Some(200)],
        [NoParameters EXCEPT !.temperature = Some(100), !.maxTokens = Some(512)]}

\* Sessions that set the parameters, reset them, and load the page anew.
ParametersNext ==
  \/ \E params \in ParameterUpdates : UpdateParameters(params)
  \/ ResetParameters
  \/ Reload

ParametersSpec == Init /\ [][ParametersNext]_vars

\* Sessions that set the temperature or two fields at once, reset the
\* parameters, set flags and load the page anew.
SettingsNext ==
  \/ \E params \in {[NoParameters EXCEPT !.temperature = Some(0)],
                     [NoParameters EXCEPT !.temperature = Some(100),
                                          !.maxTokens = Some(512)]} :
       UpdateParameters(params)
  \/ ResetParameters
  \/ SetAutoSave
  \/ SetAutoTitle
  \/ Reload

SettingsSpec == Init /\ [][SettingsNext]_vars

(***************************************************************************)
(* The persistence adapter, called on its own.  A call leaves in           *)
(* `returned` the operation, whether it threw, and the value it returned   *)
(* or the message it threw.  The store can hold a conversation while       *)
(* the enable flag is off: a build with the flag on has run before.        *)
(* Export is to JSON; the exported text is the object it denotes.  The     *)
(* size of an item is taken to be the number of characters of the strings  *)
(* of its entries, an absent item and an empty array both counting 0.      *)
(***************************************************************************)
\* String.prototype.toLowerCase, on the letters A to Z.
LowerCaseChar(c) ==
  LET upper == "ABCDEFGHIJKLMNOPQRSTUVWXYZ"
      lower == "abcdefghijklmnopqrstuvwxyz"
  IN  IF \E i \in 1..Len(upper) : SubSeq(upper, i, i) = c
      THEN LET i == CHOOSE j \in 1..Len(upper) : SubSeq(upper, j, j) = c
           IN  SubSeq(lower, i, i)
      ELSE c

RECURSIVE ToLowerCase(_)
ToLowerCase(text) ==
  IF Len(text) = 0 THEN ""
  ELSE LowerCaseChar(SubSeq(text, 1, 1)) \o ToLowerCase(SubSeq(text, 2, Len(text)))

\* String.prototype.includes
Includes(text, part) ==
  \E i \in 1..(Len(text) - Len(part) + 1) : SubSeq(text, i, i + Len(part) - 1) = part

\* A value returned, and an error thrown.
Returns(value) == [thrown |-> FALSE, value |-> value]
Throws(message) == [thrown |-> TRUE, value |-> message]

\* storageService.getConversation
GetConversation(enabled, stored, id) ==
  FindConversation(GetConversations(enabled, stored), id)

\* storageService.searchConversations
SearchConversations(enabled, stored, query) ==
  LET lowerQuery == ToLowerCase(query) IN
  SelectSeq(GetConversations(enabled, stored),
            LAMBDA conv :
              \/ Includes(ToLowerCase(conv.title), lowerQuery)
              \/ \E i \in DOMAIN conv.messages :
                    Includes(ToLowerCase(conv.messages[i].content), lowerQuery))

\* storageService.exportConversation(id, 'json')
ExportConversation(enabled, stored, id) ==
  LET conversation == GetConversation(enabled, stored, id) IN
  IF conversation = None THEN Throws("Conversation not found")
  ELSE Returns(Stringify(Get(conversation)))

\* importConversations: the Conversation built from a parsed entry, as
\* JSON.stringify writes it.  A field the entry lacks is "" (or None).
ImportedConversation(conv, t) ==
  [id |-> IF Len(conv.id) > 0 THEN conv.id ELSE NumberToString(t),
   title |-> IF Len(conv.title) > 0 THEN conv.title ELSE "Imported Conversation",
   messages |-> conv.messages,
   createdAt |-> ToISOString(IF Len(conv.createdAt) > 0 THEN NewDate(conv.createdAt) ELSE t),
   updatedAt |-> ToISOString(IF Len(conv.updatedAt) > 0 THEN NewDate(conv.updatedAt) ELSE t),
   model |-> conv.model,
   totalTokens |-> conv.totalTokens]

\* conversations.forEach(conv => this.saveConversation(...)), on the item.
RECURSIVE ImportEach(_, _, _, _)
ImportEach(enabled, stored, parsed, t) ==
  IF Len(parsed) = 0 THEN stored
  ELSE ImportEach(enabled,
                  WriteConversation(enabled, stored, ImportedConversation(Head(parsed), t), t),
                  Tail(parsed), t)

\* storageService.importConversations(data): the item afterwards and the
\* value returned.  data.parses tells whether JSON.parse accepts the text,
\* data.parsed is the array it gives (an object is wrapped into one).
ImportConversations(enabled, stored, data, t) ==
  IF data.parses
  THEN [stored |-> ImportEach(enabled, stored, data.parsed, t), result |-> Returns(TRUE)]
  ELSE [stored |-> stored, result |-> Returns(FALSE)]

\* cleanupOldConversations(daysToKeep): the item afterwards and the count.
CleanupOldConversations(enabled, stored, daysToKeep, t) ==
  IF ~enabled THEN [stored |-> stored, result |-> Returns(0)]
  ELSE LET cutoffDate == t - daysToKeep * MillisecondsPerDay
           all == GetConversations(enabled, stored)
           toKeep == SelectSeq(all, LAMBDA conv : conv.updatedAt > cutoffDate)
           removedCount == Len(all) - Len(toKeep)
       IN  [stored |-> IF removedCount > 0
                       THEN [i \in DOMAIN toKeep |-> Stringify(toKeep[i])]
                       ELSE stored,
            result |-> Returns(removedCount)]

\* The characters of the strings of a stored conversation.
RECURSIVE ContentSize(_)
ContentSize(msgs) ==
  IF Len(msgs) = 0 THEN 0
  ELSE Len(Head(msgs).id) + Len(Head(msgs).content) + Len(Head(msgs).timestamp)
       + ContentSize(Tail(msgs))

RECURSIVE ConversationsSize(_)
ConversationsSize(stored) ==
  IF Len(stored) = 0 THEN 0
  ELSE Len(Head(stored).id) + Len(Head(stored).title) + Len(Head(stored).createdAt)
       + Len(Head(stored).updatedAt) + ContentSize(Head(stored).messages)
       + ConversationsSize(Tail(stored))

RECURSIVE TemplatesSize(_)
TemplatesSize(stored) ==
  IF Len(stored) = 0 THEN 0
  ELSE Len(Head(stored).id) + Len(Head(stored).name) + TemplatesSize(Tail(stored))

\* storageService.getStorageSize
GetStorageSize(enabled, stored, storedTemplates, storedSettings) ==
  IF ~enabled THEN [conversations |-> 0, templates |-> 0, settings |-> 0, total |-> 0]
  ELSE LET conversationsSize == ConversationsSize(stored)
           templatesSize == TemplatesSize(storedTemplates)
           settingsSize == IF IsSome(storedSettings) THEN 1 ELSE 0
       IN  [conversations |-> conversationsSize, templates |-> templatesSize,
            settings |-> settingsSize,
            total |-> conversationsSize + templatesSize + settingsSize]

\* storageService.getTemplates, saveTemplate and deleteTemplate, on the item.
GetTemplates(enabled, stored) == IF enabled THEN stored ELSE <<>>

SaveTemplate(enabled, stored, template) ==
  IF ~enabled THEN stored
  ELSE LET templates == GetTemplates(enabled, stored)
           existingIndex == IndexOfId(templates, template.id, 1)
       IN  IF existingIndex > 0 THEN [templates EXCEPT ![existingIndex] = template]
           ELSE Append(templates, template)

DeleteTemplate(enabled, stored, id) ==
  IF ~enabled THEN stored ELSE WithoutId(GetTemplates(enabled, stored), id)

\* A conversation of the running session: created at 1 ms, with a message
\* and its reply in the same millisecond.
TimedConversation ==
  [id |-> "1c7m", title |-> "Trip", createdAt |-> 1, updatedAt |-> 1,
   model |-> Some("GPT-4 Turbo"), totalTokens |-> Some(60),
   messages |->
     <<[id |-> "1k3j", role |-> "user", content |-> "Where to?", timestamp |-> 1,
        model |-> Some("GPT-4 Turbo"), tokens |-> None, files |-> <<>>],
       [id |-> "1x9p", role |-> "assistant", content |-> "To the sea.", timestamp |-> 1,
        model |-> Some("GPT-4 Turbo"),
        tokens |-> Some([prompt |-> 2, completion |-> 58, total |-> 60]),
        files |-> <<>>]>>]

\* What the adapter is called with.
SavedConversations == {StoredConversation, TimedConversation}

\* A call of the adapter that leaves `result` and the three items as given.
\* The value of a result is a record with one field, named after its kind.
AdapterCall(operation, result, stored, storedSettings, storedTemplates) ==
  /\ returned' = Some([operation |-> operation, thrown |-> result.thrown,
                       value |-> result.value])
  /\ store' = stored
  /\ settingsStore' = storedSettings
  /\ templateStore' = storedTemplates

SaveConversationCall ==
  \E conversation \in SavedConversations :
    /\ AdapterCall("saveConversation", Returns([nothing |-> "undefined"]),
                   SaveConversation(storageEnabled, store, conversation, now),
                   settingsStore, templateStore)
    /\ UNCHANGED <<appVars, now, downloads>>

GetConversationsCall ==
  /\ AdapterCall("getConversations", Returns([conversations |-> GetConversations(storageEnabled, store)]),
                 store, settingsStore, templateStore)
  /\ UNCHANGED <<appVars, now, downloads>>

DeleteConversationCall ==
  \E id \in {c.id : c \in SavedConversations} :
    /\ AdapterCall("deleteConversation", Returns([nothing |-> "undefined"]),
                   StorageDeleteConversation(storageEnabled, store, id),
                   settingsStore, templateStore)
    /\ UNCHANGED <<appVars, now, downloads>>

SaveTemplateCall ==
  \E template \in {[id |-> "t1", name |-> "Summarise"]} :
    /\ AdapterCall("saveTemplate", Returns([nothing |-> "undefined"]), store, settingsStore,
                   SaveTemplate(storageEnabled, templateStore, template))
    /\ UNCHANGED <<appVars, now, downloads>>

GetTemplatesCall ==
  /\ AdapterCall("getTemplates", Returns([templates |-> GetTemplates(storageEnabled, templateStore)]),
                 store, settingsStore, templateStore)
  /\ UNCHANGED <<appVars, now, downloads>>

DeleteTemplateCall ==
  \E template \in {[id |-> "t1", name |-> "Summarise"]} :
    /\ AdapterCall("deleteTemplate", Returns([nothing |-> "undefined"]), store, settingsStore,
                   DeleteTemplate(storageEnabled, templateStore, template.id))
    /\ UNCHANGED <<appVars, now, downloads>>

SaveSettingsCall ==
  \E partial \in {[parameters |-> None, autoSave |-> Some(FALSE), autoTitle |-> None]} :
    /\ AdapterCall("saveSettings", Returns([nothing |-> "undefined"]), store,
                   SaveSettings(storageEnabled, settingsStore, partial), templateStore)
    /\ UNCHANGED <<appVars, now, downloads>>

GetSettingsCall ==
  /\ AdapterCall("getSettings", Returns([settings |-> GetSettings(storageEnabled, settingsStore)]),
                 store, settingsStore, templateStore)
  /\ UNCHANGED <<appVars, now, downloads>>

SearchCall ==
  \E query \in {"", "SEA", "zebra"} :
    /\ AdapterCall("searchConversations",
                   Returns([conversations |-> SearchConversations(storageEnabled, store, query)]),
                   store, settingsStore, templateStore)
    /\ UNCHANGED <<appVars, now, downloads>>

\* exportConversation; what it returns is written to a file.
ExportCall ==
  \E id \in {c.id : c \in SavedConversations} :
    LET result == ExportConversation(storageEnabled, store, id) IN
    /\ AdapterCall("exportConversation",
                   IF result.thrown THEN Throws([message |-> result.value])
                   ELSE Returns([text |-> result.value]),
                   store, settingsStore, templateStore)
    /\ downloads' = IF result.thrown THEN downloads ELSE Some(result.value)
    /\ UNCHANGED <<appVars, now>>

\* importConversations, given the exported file or a text that is not JSON.
ImportCall(data) ==
  LET import == ImportConversations(storageEnabled, store, data, now) IN
  /\ AdapterCall("importConversations",
                 Returns([boolean |-> import.result.value]), import.stored,
                 settingsStore, templateStore)
  /\ UNCHANGED <<appVars, now, downloads>>

ImportExported ==
  /\ IsSome(downloads)
  /\ ImportCall([parses |-> TRUE, parsed |-> <<Get(downloads)>>])

\* A text JSON.parse rejects.
ImportNotJSON == ImportCall([parses |-> FALSE, parsed |-> <<>>])

StorageSizeCall ==
  /\ AdapterCall("getStorageSize",
                 Returns([sizes |-> GetStorageSize(storageEnabled, store, templateStore,
                                                   settingsStore)]),
                 store, settingsStore, templateStore)
  /\ UNCHANGED <<appVars, now, downloads>>

\* clearAllData
ClearAllDataCall ==
  /\ AdapterCall("clearAllData", Returns([nothing |-> "undefined"]),
                 IF storageEnabled THEN <<>> ELSE store,
                 IF storageEnabled THEN None ELSE settingsStore,
                 IF storageEnabled THEN <<>> ELSE templateStore)
  /\ UNCHANGED <<appVars, now, downloads>>

CleanupCall ==
  \E daysToKeep \in {0, 1} :
    LET cleanup == CleanupOldConversations(storageEnabled, store, daysToKeep, now) IN
    /\ AdapterCall("cleanupOldConversations",
                   Returns([number |-> cleanup.result.value]), cleanup.stored,
                   settingsStore, templateStore)
    /\ UNCHANGED <<appVars, now, downloads>>

AdapterInit ==
  /\ storageEnabled \in BOOLEAN
  /\ enableRealAPI = FALSE
  /\ fileUploadEnabled = TRUE
  /\ store \in {<<>>, <<Stringify(StoredConversation)>>}
  /\ settingsStore = None
  /\ templateStore = <<>>
  /\ Mounted

\* Every call of the adapter, within one millisecond.
AdapterNext ==
  \/ SaveConversationCall
  \/ GetConversationsCall
  \/ DeleteConversationCall
  \/ SaveTemplateCall
  \/ GetTemplatesCall
  \/ DeleteTemplateCall
  \/ SaveSettingsCall
  \/ GetSettingsCall
  \/ SearchCall
  \/ ExportCall
  \/ ImportExported
  \/ ImportNotJSON
  \/ StorageSizeCall
  \/ ClearAllDataCall
  \/ CleanupCall

AdapterSpec == AdapterInit /\ [][AdapterNext]_vars

(***************************************************************************)
(* The file service, called on its own.  A File has a name, a MIME type,   *)
(* a size in bytes and a text; `readable` tells whether a FileReader       *)
(* reads it or reports an error.  The text of the two files at the size    *)
(* limit is abbreviated.  Of a ProcessedFile the id, the upload time and   *)
(* the image preview are left out, as nothing reads them.                  *)
(***************************************************************************)
maxFileSize == MaxFileSizeMB * BytesPerKB * BytesPerKB

supportedTypes ==
  [text |-> <<".txt", ".md", ".json", ".csv", ".log">>,
   document |-> <<".pdf", ".doc", ".docx">>,
   image |-> <<".jpg", ".jpeg", ".png", ".gif", ".webp", ".svg">>,
   code |-> <<".js", ".ts", ".py", ".java", ".cpp", ".html", ".css", ".xml">>]

\* Array.prototype.includes
IncludesItem(items, item) == \E i \in DOMAIN items : items[i] = item

\* String.prototype.split(sep), for a separator of one character.
RECURSIVE Split(_, _)
Split(text, sep) ==
  IF \E i \in 1..Len(text) : SubSeq(text, i, i) = sep
  THEN LET first == CHOOSE i \in 1..Len(text) :
                      /\ SubSeq(text, i, i) = sep
                      /\ \A j \in 1..(i - 1) : SubSeq(text, j, j) # sep
       IN  <<SubSeq(text, 1, first - 1)>> \o Split(SubSeq(text, first + 1, Len(text)), sep)
  ELSE <<text>>

\* '.' + file.name.split('.').pop()?.toLowerCase()
Extension(name) ==
  LET parts == Split(name, ".") IN "." \o ToLowerCase(parts[Len(parts)])

isTypeSupported(extension) ==
  \E kind \in DOMAIN supportedTypes : IncludesItem(supportedTypes[kind], extension)

isTextFile(extension) ==
  IncludesItem(supportedTypes.text \o supportedTypes.code, extension)

isImageFile(extension) == IncludesItem(supportedTypes.image, extension)

\* Math.floor(Math.log(bytes) / Math.log(1024)), for bytes > 0.
RECURSIVE SizeUnit(_)
SizeUnit(bytes) == IF bytes < BytesPerKB THEN 0 ELSE 1 + SizeUnit(bytes \div BytesPerKB)

RECURSIVE Power(_, _)
Power(base, exponent) == IF exponent = 0 THEN 1 ELSE base * Power(base, exponent - 1)

\* formatFileSize(bytes): two decimals at most, rounded half up, and the unit.
formatFileSize(bytes) ==
  IF bytes = 0 THEN "0 B"
  ELSE LET i == SizeUnit(bytes)
           unit == Power(BytesPerKB, i)
           hundredths == (bytes * 100 + unit \div 2) \div unit
       IN  HundredthsToString(hundredths) \o " " \o <<"B", "KB", "MB", "GB">>[i + 1]

\* The object a line of a CSV gives: obj[headers[index]] = value.trim(),
\* index by index; a value beyond the headers goes under "undefined".
RowObject(headers, values) ==
  LET key(i) == IF i <= Len(headers) THEN headers[i] ELSE "undefined"
      last(k) == CHOOSE i \in DOMAIN values :
                   key(i) = k /\ \A j \in DOMAIN values : key(j) = k => j <= i
  IN  [k \in {key(i) : i \in DOMAIN values} |-> Trim(values[last(k)])]

\* parseCSV(content)
parseCSV(content) ==
  LET lines == Split(Trim(content), "\n") IN
  IF Len(lines) < 2 THEN [rows |-> 0, columns |-> 0]
  ELSE LET split == Split(lines[1], ",")
           headers == [i \in DOMAIN split |-> Trim(split[i])]
           rows == [k \in 1..(Len(lines) - 1) |-> RowObject(headers, Split(lines[k + 1], ","))]
       IN  [headers |-> headers,
            rows |-> Len(rows),
            columns |-> Len(headers),
            preview |-> SubSeq(rows, 1, IF Len(rows) < PreviewRows THEN Len(rows)
                                        ELSE PreviewRows),
            totalSize |-> Len(content)]

\* A processFile that also turns away a file of exactly the greatest size.
processFileBelowLimit(enabled, file) ==
  IF ~enabled THEN Throws("File upload is not enabled")
  ELSE IF file.size >= maxFileSize
  THEN Throws("File size exceeds " \o NumberToString(maxFileSize \div (BytesPerKB * BytesPerKB))
              \o "MB limit")
  ELSE IF ~isTypeSupported(Extension(file.name))
  THEN Throws("File type " \o Extension(file.name) \o " is not supported")
  ELSE IF ~file.readable THEN Throws("Failed to process file: Failed to read file")
  ELSE Returns([name |-> file.name, type |-> file.type, size |-> file.size,
                content |-> file.text, metadata |-> None])

\* processFile(file): the ProcessedFile returned or the error thrown.
processFile(enabled, file) ==
  LET extension == Extension(file.name)
      processedFile == [name |-> file.name, type |-> file.type, size |-> file.size,
                        content |-> "", metadata |-> None]
  IN
  IF ~enabled THEN Throws("File upload is not enabled")
  ELSE IF file.size > maxFileSize
  THEN Throws("File size exceeds " \o NumberToString(maxFileSize \div (BytesPerKB * BytesPerKB))
              \o "MB limit")
  ELSE IF ~isTypeSupported(extension)
  THEN Throws("File type " \o extension \o " is not supported")
  ELSE IF isTextFile(extension)
  THEN IF file.readable THEN Returns([processedFile EXCEPT !.content = file.text])
       ELSE Throws("Failed to process file: Failed to read file")
  ELSE IF isImageFile(extension)
  THEN IF file.readable
       THEN Returns([processedFile EXCEPT
                       !.content = "Image file: " \o file.name \o ", Size: "
                                   \o ToFixed1KB(file.size) \o "KB, Type: " \o file.type])
       ELSE Throws("Failed to process file: Failed to process image")
  ELSE IF extension = ".json"
  THEN IF file.readable THEN Returns([processedFile EXCEPT !.content = file.text])
       ELSE Throws("Failed to process file: Failed to read file")
  ELSE IF extension = ".csv"
  THEN IF file.readable
       THEN Returns([processedFile EXCEPT !.content = file.text,
                                          !.metadata = Some(parseCSV(file.text))])
       ELSE Throws("Failed to process file: Failed to read file")
  ELSE Returns([processedFile EXCEPT
                  !.content = "[" \o (IF Len(file.type) > 0 THEN file.type ELSE "Unknown")
                              \o " file: " \o file.name \o "]"])

\* validateFile(file): { valid, error? }
validateFile(enabled, file) ==
  IF ~enabled THEN [valid |-> FALSE, error |-> Some("File upload is not enabled")]
  ELSE IF file.size > maxFileSize
  THEN [valid |-> FALSE,
        error |-> Some("File size exceeds " \o formatFileSize(maxFileSize) \o " limit")]
  ELSE IF ~isTypeSupported(Extension(file.name))
  THEN [valid |-> FALSE,
        error |-> Some("File type " \o Extension(file.name)
                       \o " is not supported. Supported types: "
                       \o JoinComma(supportedTypes.text \o supportedTypes.document
                                    \o supportedTypes.image \o supportedTypes.code))]
  ELSE [valid |-> TRUE, error |-> None]

\* A batch that ends at the first file processFile turns away.
RECURSIVE processUntilFailure(_, _)
processUntilFailure(enabled, files) ==
  IF Len(files) = 0 THEN <<>>
  ELSE LET processed == processFile(enabled, Head(files)) IN
       IF processed.thrown THEN <<>>
       ELSE <<processed.value>> \o processUntilFailure(enabled, Tail(files))

\* processMultipleFiles(files): the results, a failure being logged and
\* passed over.
RECURSIVE processMultipleFiles(_, _)
processMultipleFiles(enabled, files) ==
  IF Len(files) = 0 THEN <<>>
  ELSE LET processed == processFile(enabled, Head(files)) IN
       (IF processed.thrown THEN <<>> ELSE <<processed.value>>)
       \o processMultipleFiles(enabled, Tail(files))

\* The files the user picks.
TextFile(name, type, size, text) ==
  [name |-> name, type |-> type, size |-> size, text |-> text, readable |-> TRUE]

TableText == "city,year\nOslo,2019\nRome,2020\nLima,2021\nBonn,2022\nNice,2023\n"

Uploads ==
  {TextFile("notes.txt", "text/plain", 12, "buy milk now"),
   TextFile("full.log", "text/plain", maxFileSize, "started"),
   TextFile("over.log", "text/plain", maxFileSize + 1, "started."),
   TextFile("table.csv", "text/csv", Len(TableText), TableText),
   TextFile("LONG.CSV", "text/csv", Len(TableText) + 21,
            TableText \o "Kiel,2024\nGent, 2025\n"),
   TextFile("tool.exe", "application/octet-stream", 20, "MZ"),
   [TextFile("lost.md", "text/markdown", 30, "") EXCEPT !.readable = FALSE]}

\* The batches of at most MaxBatch files.
Batches == UNION {[1..n -> Uploads] : n \in 0..MaxBatch}

\* A call of the file service, which leaves its result in `returned`.
FileCall(operation, result) ==
  /\ returned' = Some([operation |-> operation, thrown |-> result.thrown,
                       value |-> result.value])
  /\ UNCHANGED <<appVars, store, settingsStore, templateStore, downloads, now>>

ValidateFileCall(file) ==
  FileCall("validateFile", Returns([validation |-> validateFile(fileUploadEnabled, file)]))

ProcessFileCall(file) ==
  LET processed == processFile(fileUploadEnabled, file) IN
  FileCall("processFile",
           IF processed.thrown THEN Throws([message |-> processed.value])
           ELSE Returns([file |-> processed.value]))

ProcessMultipleFilesCall(files) ==
  FileCall("processMultipleFiles",
           Returns([files |-> processMultipleFiles(fileUploadEnabled, files)]))

\* handleFiles(files): the files chosen in the dialog, once per session.
ChooseFiles ==
  /\ Len(picked) = 0
  /\ \E files \in Batches : picked' = files
  /\ UNCHANGED <<uiVars, config, settings, settingsStore, templateStore, returned, downloads,
                 deleted, store, now, inflight, gatewayLog, saveTimer>>


\* addFiles(files): what processMultipleFiles returns is staged.
PickFiles == AddFiles(processMultipleFiles(fileUploadEnabled, picked))

FileInit ==
  /\ storageEnabled = FALSE
  /\ enableRealAPI = FALSE
  /\ fileUploadEnabled \in BOOLEAN
  /\ store = <<>>
  /\ settingsStore = None
  /\ templateStore = <<>>
  /\ Mounted

\* The file service and addFiles, called with the files chosen.
FileNext ==
  \/ ChooseFiles
  \/ \E i \in DOMAIN picked : ValidateFileCall(picked[i])
  \/ \E i \in DOMAIN picked : ProcessFileCall(picked[i])
  \/ ProcessMultipleFilesCall(picked)
  \/ PickFiles

FileSpec == FileInit /\ [][FileNext]_vars

(***************************************************************************)
(* The provider gateway, called on its own.  What a call reads from its    *)
(* environment is given with the call: whether the API key of the          *)
(* provider is set, and how the provider answers the request.  An answer   *)
(* is the HTTP status ("ok", "error", or "failed" when fetch rejects),     *)
(* the text of a reply, the message of an error body if it has one, and    *)
(* the usage numbers if the reply has them.  An outcome is the AIResponse  *)
(* the call settles to and the requests it has made.                       *)
(***************************************************************************)
\* The name a provider branch uses in its messages.
ProviderTitle(provider) ==
  CASE provider = "openai" -> "OpenAI"
    [] provider = "anthropic" -> "Anthropic"
    [] provider = "google" -> "Google"
    [] provider = "huggingface" -> "Hugging Face"
    [] provider = "cohere" -> "Cohere"
    [] provider = "ollama" -> "Ollama"
    [] provider = "groq" -> "Groq"

\* callOpenAI, callAnthropic, callGemini, callHuggingFace, callCohere,
\* callOllama, callGroq: the AIResponse returned or the Error thrown, and the
\* number of fetch calls made.
callProvider(provider, input, keyed, answer) ==
  LET failedMessage ==
        IF provider = "google" THEN "Google Gemini API request failed"
        ELSE ProviderTitle(provider) \o " API request failed"
      text(fallback) == IF Len(answer.text) > 0 THEN answer.text ELSE fallback
      count(field) == IF IsSome(answer.usage) THEN Get(answer.usage)[field] ELSE 0
      prompt == JoinLines([i \in DOMAIN input |->
                             input[i].role \o ": " \o input[i].content])
  IN
  IF provider # "ollama" /\ ~keyed
  THEN [result |-> Throws(ProviderTitle(provider) \o " API key not configured"),
        fetches |-> 0]
  ELSE IF provider = "cohere" /\ Len(input) = 0
  THEN [result |-> Throws("Cannot read properties of undefined (reading 'content')"),
        fetches |-> 0]
  ELSE IF answer.status = "failed"
  THEN [result |-> Throws("Failed to fetch"), fetches |-> 1]
  ELSE IF answer.status = "error"
  THEN [result |->
          Throws(IF provider \in {"openai", "anthropic", "groq"} /\ IsSome(answer.message)
                    /\ Len(Get(answer.message)) > 0
                 THEN Get(answer.message) ELSE failedMessage),
        fetches |-> 1]
  ELSE [result |->
          Returns(
            CASE provider \in {"openai", "groq"} ->
                   Resolved(TRUE, answer.text, None,
                            Some([promptTokens |-> count("input"),
                                  completionTokens |-> count("output"),
                                  totalTokens |-> count("total")]))
              [] provider = "anthropic" ->
                   Resolved(TRUE, answer.text, None,
                            Some([promptTokens |-> count("input"),
                                  completionTokens |-> count("output"),
                                  totalTokens |-> count("input") + count("output")]))
              [] provider = "huggingface" ->
                   LET responseContent == Trim(ReplaceFirst(answer.text, prompt))
                   IN  Resolved(TRUE,
                                IF Len(responseContent) > 0 THEN responseContent
                                ELSE "No response generated", None, None)
              [] OTHER -> Resolved(TRUE, text("No response generated"), None, None)),
        fetches |-> 1]

\* A gateway that goes to the provider whatever the real-API flag says.
generateResponseAlwaysReal(realAPI, input, model, params, keyed, answer, draws) ==
  IF ToLowerCase(model.provider) \in RealProviders
  THEN LET call == callProvider(ToLowerCase(model.provider), input, keyed, answer) IN
       {[response |-> IF call.result.thrown
                      THEN Resolved(FALSE, "", Some(call.result.value), None)
                      ELSE call.result.value,
         fetches |-> call.fetches]}
  ELSE {[response |-> r, fetches |-> 0] :
          r \in MockResponses(input, Some(model), params, draws)}

\* generateResponse(messages, model, parameters): the outcomes, over the
\* draws of the mock generator.
generateResponse(realAPI, input, model, params, keyed, answer, draws) ==
  LET mock == {[response |-> r, fetches |-> 0] :
                 r \in MockResponses(input, Some(model), params, draws)}
      provider == ToLowerCase(model.provider)
  IN
  IF ~realAPI THEN mock
  ELSE IF provider \in RealProviders
  THEN LET call == callProvider(provider, input, keyed, answer) IN
       {[response |-> IF call.result.thrown
                      THEN Resolved(FALSE, "", Some(call.result.value), None)
                      ELSE call.result.value,
         fetches |-> call.fetches]}
  ELSE mock

\* The calls made: a model of each provider in some spelling and of two
\* unknown ones, an empty history or one message, and the answers of a
\* provider.
GatewayCalls ==
  [model : {[id |-> "m-1", name |-> "Model", provider |-> provider] :
              provider \in {"OpenAI", "anthropic", "Google", "HuggingFace", "cohere",
                            "Ollama", "GROQ", "mistral", ""}},
   input : {<<>>, <<[role |-> "user", content |-> "Hi"]>>},
   keyed : BOOLEAN,
   answer : {[status |-> "ok", text |-> "user: Hi Hello!", message |-> None,
              usage |-> Some([input |-> 2, output |-> 3, total |-> 5])],
             [status |-> "ok", text |-> "", message |-> None, usage |-> None],
             [status |-> "error", text |-> "", message |-> Some("Rate limit reached"),
              usage |-> None],
             [status |-> "error", text |-> "", message |-> None, usage |-> None],
             [status |-> "failed", text |-> "", message |-> None, usage |-> None]}]

\* A call of generateResponse; `returned` holds what it was given and
\* its outcome.
GenerateCall ==
  \E given \in GatewayCalls :
    \E outcome \in generateResponse(enableRealAPI, given.input, given.model, parameters,
                                     given.keyed, given.answer, MockDraws) :
      /\ returned' = Some([operation |-> "generateResponse",
                           thrown |-> outcome.response.thrown,
                           value |-> [generated |-> outcome.response,
                                      fetches |-> outcome.fetches, given |-> given]])
      /\ UNCHANGED <<appVars, store, settingsStore, templateStore, downloads, now>>

GatewayInit ==
  /\ enableRealAPI \in BOOLEAN
  /\ storageEnabled = FALSE
  /\ fileUploadEnabled = TRUE
  /\ store = <<>>
  /\ settingsStore = None
  /\ templateStore = <<>>
  /\ Mounted

GatewaySpec == GatewayInit /\ [][GenerateCall]_vars

(***************************************************************************)
(* Steps, as the properties below name them.  A step of a continuation is  *)
(* told apart by the answer it was given; Call is the state its call       *)
(* started from.                                                           *)
(***************************************************************************)
Settled(response) == ~response.thrown /\ response.success

SendStep == Send(RandomSuffixes)

SendSucceeds ==
  /\ Len(inflight) = 1
  /\ \E suffix \in RandomSuffixes, response \in Answers(inflight[1], MockDraws) :
       Settled(response) /\ SendMessageResume(1, response, suffix)

SendFails ==
  /\ Len(inflight) = 1
  /\ \E suffix \in RandomSuffixes, response \in Answers(inflight[1], MockDraws) :
       ~Settled(response) /\ SendMessageResume(1, response, suffix)

RegenerateSucceeds ==
  /\ Len(inflight) = 1
  /\ \E suffix \in RandomSuffixes, response \in Answers(inflight[1], MockDraws) :
       Settled(response) /\ RegenerateResume(1, response, suffix)

RegenerateFails ==
  /\ Len(inflight) = 1
  /\ \E suffix \in RandomSuffixes, response \in Answers(inflight[1], MockDraws) :
       ~Settled(response) /\ RegenerateResume(1, response, suffix)

Call == inflight[1].call

HasAssistant(msgs) == \E i \in DOMAIN msgs : msgs[i].role = "assistant"

(***************************************************************************)
(* Sending.                                                                *)
(***************************************************************************)
\* C1: with the live API off, a model selected and nothing staged, a send of
\* "Hello" that the gateway answers leaves the list it started from followed
\* by exactly one user message "Hello" and then one assistant message with
\* non-empty content, whether or not a conversation was active at the call.
C1_SendAppendsUserThenAssistant ==
  [][(/\ SendSucceeds
      /\ ~enableRealAPI
      /\ Call.currentPrompt = "Hello"
      /\ Call.uploadedFiles = <<>>
      /\ IsSome(Call.selectedModel))
     => LET n == Len(Call.messages) IN
        /\ Len(messages') = n + 2
        /\ SubSeq(messages', 1, n) = Call.messages
        /\ messages'[n + 1].role = "user"
        /\ messages'[n + 1].content = "Hello"
        /\ messages'[n + 2].role = "assistant"
        /\ Len(messages'[n + 2].content) > 0]_vars

\* C2: the usage of every simulated answer to a suspended call has
\* promptTokens = floor(length of the last message's content / 4),
\* completionTokens in [50, 250) and totalTokens = promptTokens +
\* completionTokens.
C2_MockUsageAddsUp ==
  \A i \in DOMAIN inflight :
    \A response \in MockResponses(inflight[i].input, inflight[i].model,
                                  inflight[i].parameters, MockDraws) :
      IsSome(response.usage) =>
        LET usage == Get(response.usage)
            input == inflight[i].input
            prompt == IF Len(input) = 0 THEN "" ELSE input[Len(input)].content
        IN /\ usage.promptTokens = Len(prompt) \div 4
           /\ usage.completionTokens \in 50..249
           /\ usage.totalTokens = usage.promptTokens + usage.completionTokens

\* C3: a send with no model selected, or with an empty or whitespace-only
\* prompt and nothing staged, sets an error, does not invoke the gateway, and
\* leaves the messages, the staged files, the input buffer, the active
\* conversation id, the conversation list and both flags as they were.
C3_RejectedSendChangesOnlyError ==
  [][(/\ SendStep
      /\ \/ selectedModel = None
         \/ Len(Trim(currentPrompt)) = 0 /\ Len(uploadedFiles) = 0)
     => /\ IsSome(error')
        /\ UNCHANGED <<messages, uploadedFiles, currentPrompt, currentConversationId,
                       conversations, isLoading, isGenerating, inflight, gatewayLog>>]_vars

\* A whitespace-only prompt was sent with nothing staged and refused: the
\* error is set, the buffer still holds the prompt, no call was made.
C3_Witness ==
  /\ error = Some("Please enter a message or upload files")
  /\ currentPrompt = " "
  /\ uploadedFiles = <<>>
  /\ gatewayLog = <<>>

\* C4: when the gateway fails a send, the error is set, the user message
\* of that send is still the last of the list, no assistant message was
\* appended, both flags are false and the gateway was invoked exactly once.
C4_FailedSendKeepsUserMessage ==
  [][SendFails
     => LET n == Len(Call.messages) IN
        /\ IsSome(error')
        /\ Len(messages') = n + 1
        /\ messages'[n + 1].role = "user"
        /\ messages'[n + 1].content = Call.currentPrompt
        /\ ~isLoading' /\ ~isGenerating'
        /\ Len(gatewayLog') = Call.gatewayCalls + 1]_vars

(***************************************************************************)
(* Regenerating.                                                           *)
(***************************************************************************)
\* C5: a regeneration on a list of exactly one user message and one
\* assistant message that the gateway answers leaves exactly two messages,
\* the first being the original user message.
C5_RegenerateKeepsTwoMessages ==
  [][(/\ RegenerateSucceeds
      /\ Len(Call.messages) = 2
      /\ Call.messages[1].role = "user"
      /\ Call.messages[2].role = "assistant")
     => /\ Len(messages') = 2
        /\ messages'[1] = Call.messages[1]
        /\ messages'[2].role = "assistant"]_vars

\* The reply of the stored conversation, cut down to its first two
\* messages, was regenerated: the stored user message is followed by an
\* assistant message made in this session.
C5_Witness ==
  /\ gatewayLog = <<[kind |-> "regenerate", outcome |-> "success", size |-> 2]>>
  /\ Len(messages) = 2
  /\ messages[1] = StoredConversation.messages[1]
  /\ messages[2].role = "assistant"
  /\ messages[2].timestamp >= SessionStart

\* The most recent assistant message of a list, 0 when there is none.
LastAssistant(msgs) ==
  IF HasAssistant(msgs)
  THEN CHOOSE i \in DOMAIN msgs :
         /\ msgs[i].role = "assistant"
         /\ \A j \in DOMAIN msgs : msgs[j].role = "assistant" => j <= i
  ELSE 0

\* A regeneration invoked now removes the most recent assistant message and
\* what follows it and invokes the gateway with the truncated list.
RegenerateTakesEffect ==
  ENABLED (/\ RegenerateLastMessage
           /\ messages' = SubSeq(messages, 1, LastAssistant(messages) - 1)
           /\ Len(inflight') = 1
           /\ inflight'[1].input = messages'
           /\ Len(gatewayLog') = Len(gatewayLog) + 1)

\* No call is suspended and the bound on gateway invocations is not reached.
CanInvoke == Idle /\ gatewayCalls < MaxCalls

\* C6, as stated: a regeneration takes effect on every list of at least one
\* message that holds an assistant message, and only on those.
C6_TakesEffectWithAnyAssistant ==
  CanInvoke => (RegenerateTakesEffect <=> Len(messages) >= 1 /\ HasAssistant(messages))

\* C6, amended: a regeneration takes effect on every list of at least two
\* messages that holds an assistant message, and only on those; on a list of
\* fewer than two messages, or with no assistant message, it does nothing.
C6_TakesEffectFromTwoMessages ==
  CanInvoke => (RegenerateTakesEffect <=> Len(messages) >= 2 /\ HasAssistant(messages))

\* A regeneration is suspended at the gateway: it was invoked on a list of
\* two messages or more and handed the gateway that list without its most
\* recent assistant message.
C6_Witness ==
  /\ Len(inflight) = 1
  /\ inflight[1].kind = "regenerate"
  /\ Len(Call.messages) >= 2
  /\ HasAssistant(Call.messages)
  /\ messages = SubSeq(Call.messages, 1, LastAssistant(Call.messages) - 1)
  /\ inflight[1].input = messages

\* C7: when the gateway fails a regeneration on a list whose last message
\* is its most recent assistant message, the list is one message shorter
\* than before the call, the error is set and isGenerating is false.
C7_FailedRegenerateLosesReply ==
  [][(/\ RegenerateFails
      /\ LastAssistant(Call.messages) = Len(Call.messages))
     => /\ Len(messages') = Len(Call.messages) - 1
        /\ messages' = SubSeq(Call.messages, 1, Len(Call.messages) - 1)
        /\ IsSome(error')
        /\ ~isGenerating']_vars

\* The regeneration of the reply of the stored conversation, cut down to
\* its first two messages, failed: only the user message is left, and the
\* error is set.
C7_Witness ==
  /\ gatewayLog = <<[kind |-> "regenerate", outcome |-> "failure", size |-> 2]>>
  /\ messages = <<StoredConversation.messages[1]>>
  /\ IsSome(error)
  /\ ~isGenerating
  /\ Idle

(***************************************************************************)
(* Attachments, identifiers and removal.                                   *)
(***************************************************************************)
\* C8: a send with a non-empty staged list F that the gateway answers
\* appends a user message carrying exactly F and an assistant message
\* carrying no attachment, and leaves the staged list empty.  Stated for
\* sends made while a conversation is active.
C8_OnlyUserMessageCarriesFiles ==
  [][(/\ SendSucceeds
      /\ IsSome(Call.currentConversationId)
      /\ Len(Call.uploadedFiles) > 0)
     => LET n == Len(Call.messages) IN
        /\ Len(messages') = n + 2
        /\ messages'[n + 1].role = "user"
        /\ messages'[n + 1].files = Call.uploadedFiles
        /\ messages'[n + 2].files = <<>>
        /\ uploadedFiles' = <<>>]_vars

\* C9: whenever every call has run to completion, the messages are in
\* non-decreasing order of timestamp and no two of them have the same id.
C9_OrderedWithUniqueIds ==
  Idle =>
    /\ \A i, j \in DOMAIN messages :
         i < j => messages[i].timestamp <= messages[j].timestamp
    /\ \A i, j \in DOMAIN messages :
         i # j => messages[i].id # messages[j].id

\* C10: deleteMessage(id) leaves exactly the messages whose id is not id,
\* in their order, and changes nothing else; called with an id no message
\* has (as a repeated call is), it changes nothing and sets no error (the
\* list is a new array all the same, so a pending auto-save is set anew).
C10_DeleteRemovesExactlyThatId ==
  [][\A id \in DeleteTargets :
       DeleteMessage(id)
       => /\ messages' = SelectSeq(messages, LAMBDA m : m.id # id)
          /\ UNCHANGED <<conversations, currentConversationId, currentPrompt,
                         uploadedFiles, selectedModel, parameters, isLoading,
                         isGenerating, error, store, inflight, gatewayLog>>
          /\ (\A i \in DOMAIN messages : messages[i].id # id)
             => UNCHANGED <<uiVars, config, otherVars, store, now, inflight,
                            gatewayLog>>]_vars

\* The stored conversation was loaded and its first message deleted: the
\* other two are left, in their order, in the conversation that is still the
\* active one.
C10_Witness ==
  /\ messages = SubSeq(StoredConversation.messages, 2, 3)
  /\ currentConversationId = Some(StoredConversation.id)
  /\ error = None
  /\ gatewayLog = <<>>

(***************************************************************************)
(* Conversations: clearing, saving, deleting.                              *)
(***************************************************************************)
\* C11: clearMessages empties the message list and the staged-attachment
\* list and sets the active conversation id to none; the conversation list
\* and the store, the entry of the conversation that was active included,
\* are as they were.
C11_ClearDetachesAndKeepsConversations ==
  [][ClearMessages
     => /\ messages' = <<>>
        /\ uploadedFiles' = <<>>
        /\ currentConversationId' = None
        /\ UNCHANGED <<conversations, store>>]_vars

\* The draft was opened and saved, and the session was cleared: nothing is
\* active, nothing is staged, no auto-save is pending, and the list and the
\* store still hold the draft as it was saved.
C11_Witness ==
  /\ storageEnabled
  /\ messages = <<>>
  /\ uploadedFiles = <<>>
  /\ currentConversationId = None
  /\ saveTimer = None
  /\ \E i \in DOMAIN store :
       /\ store[i].id = DraftConversation.id
       /\ store[i].updatedAt = ToISOString(SessionStart)
       /\ Len(store[i].messages) = 2
  /\ \E i \in DOMAIN conversations :
       /\ conversations[i].id = DraftConversation.id
       /\ conversations[i].updatedAt = SessionStart

\* A call of saveCurrentConversation, by the user or by the auto-save timeout,
\* that finds a conversation to save.
SaveStep ==
  /\ SaveNow \/ AutoSave
  /\ IsSome(currentConversationId)
  /\ Len(messages) > 0
  /\ IsSome(FindConversation(conversations, Get(currentConversationId)))

\* C12: when saveCurrentConversation saves the active conversation, the title
\* it saves is, with auto-title on, the placeholder title and a user message
\* in the history, the first 50 characters of the first user message,
\* followed by "..." exactly when that message is longer; and otherwise the
\* title the conversation had.
C12_SaveDerivesTitle ==
  [][SaveStep
     => LET id == Get(currentConversationId)
            before == Get(FindConversation(conversations, id))
            after == Get(FindConversation(conversations', id))
            first == FirstUserMessage(messages)
            expected ==
              IF settings.autoTitle /\ before.title = DefaultTitle /\ IsSome(first)
              THEN SubSeq(Get(first).content, 1,
                          IF Len(Get(first).content) < 50 THEN Len(Get(first).content) ELSE 50)
                   \o (IF Len(Get(first).content) > 50 THEN "..." ELSE "")
              ELSE before.title
        IN  /\ after.title = expected
            /\ storageEnabled
               => Get(FindConversation(store', id)).title = expected]_vars

\* C13: a conversation deleteConversation was called for is neither in the
\* store nor in the conversation list, right after the call and after
\* whatever follows it: an auto-save that was pending, a save, a rename, the
\* answer to a send that was suspended at the gateway.
C13_DeletedStaysDeleted ==
  \A id \in deleted :
    /\ \A i \in DOMAIN store : store[i].id # id
    /\ \A i \in DOMAIN conversations : conversations[i].id # id

\* The draft was deleted while a send made in it waited for the gateway; the
\* answer then arrived in a session with no active conversation, and the
\* store holds the other conversation only.
C13_Witness ==
  /\ storageEnabled
  /\ DraftConversation.id \in deleted
  /\ currentConversationId = None
  /\ Len(messages) = 1 /\ messages[1].role = "assistant"
  /\ Len(gatewayLog) = 1 /\ gatewayLog[1].outcome = "success"
  /\ Len(store) = 1 /\ store[1].id = NoteConversation.id

(***************************************************************************)
(* The persistence adapter.                                                *)
(***************************************************************************)

\* The conversation of SavedConversations that has the given id.
Original(id) == CHOOSE c \in SavedConversations : c.id = id

\* C14: with persistence on, importing the JSON export of a conversation,
\* into the store it was exported from or into one emptied since, leaves
\* under its id a conversation whose messages are those of the
\* conversation that was saved: as many, in the same order, each with the
\* same role, content and timestamp instant.
C14_ExportImportKeepsMessages ==
  [][ImportExported /\ storageEnabled
     => LET id == Get(downloads).id
            imported == GetConversation(storageEnabled, store', id)
            original == Original(id).messages
        IN  /\ IsSome(imported)
            /\ Len(Get(imported).messages) = Len(original)
            /\ \A i \in DOMAIN original :
                 /\ Get(imported).messages[i].role = original[i].role
                 /\ Get(imported).messages[i].content = original[i].content
                 /\ Get(imported).messages[i].timestamp = original[i].timestamp]_vars

\* The export of the conversation of this session was imported into a
\* store that holds nothing else.
C14_Witness ==
  /\ storageEnabled
  /\ IsSome(returned) /\ Get(returned).operation = "importConversations"
  /\ Get(returned).value = [boolean |-> TRUE]
  /\ IsSome(downloads) /\ Get(downloads).id = TimedConversation.id
  /\ Len(store) = 1 /\ store[1].id = TimedConversation.id
  /\ store[1].updatedAt = ToISOString(SessionStart)
  /\ Len(store[1].messages) = 2
  /\ store[1].messages[2].timestamp = "1970-01-01T00:00:00.001Z"

\* What a call returns that returns nothing, an empty list, the default
\* settings, zero sizes, a zero count, or a Boolean.
EmptyOrDefault ==
  {[nothing |-> "undefined"], [conversations |-> <<>>], [templates |-> <<>>],
   [settings |-> GetSettings(FALSE, None)],
   [sizes |-> [conversations |-> 0, templates |-> 0, settings |-> 0, total |-> 0]],
   [number |-> 0], [boolean |-> FALSE], [boolean |-> TRUE]}

\* C15: with the persistence flag off, a call of the adapter (save, get,
\* delete of conversations, templates and settings, search, export, import,
\* size, wipe, cleanup) does not throw, returns an empty or default value,
\* and leaves the three stored items as they were.
C15_DisabledAdapterIsInert ==
  [][~storageEnabled
     => /\ UNCHANGED <<store, settingsStore, templateStore>>
        /\ ~Get(returned').thrown
        /\ Get(returned').value \in EmptyOrDefault]_vars

(***************************************************************************)
(* Parameters.                                                             *)
(***************************************************************************)

\* C16: updateParameters(p) gives each field p carries the value p gives
\* it, as given, leaves each other field as it was, and, with persistence
\* on, leaves the resulting bundle as the parameters of the settings record.
C16_UpdateSetsGivenFieldsOnly ==
  [][\A params \in ParameterUpdates :
       UpdateParameters(params)
       => /\ \A field \in DOMAIN parameters :
               parameters'[field] = IF params[field] = None THEN parameters[field]
                                    ELSE params[field][1]
          /\ storageEnabled
             => IsSome(settingsStore') /\ Get(settingsStore').parameters = Some(parameters')]_vars

\* Temperature was set to 2, top-p to 0 and the presence penalty to -2, one
\* after the other; max tokens and the frequency penalty are the defaults,
\* and the settings record holds the bundle.
C16_Witness ==
  /\ storageEnabled
  /\ parameters = [temperature |-> 200, maxTokens |-> 2048, topP |-> 0,
                   presencePenalty |-> -200, frequencyPenalty |-> 0]
  /\ IsSome(settingsStore)
  /\ Get(settingsStore).parameters = Some(parameters)

\* C17: the parameters of the session are within their ranges: temperature
\* 0 to 2, top-p 0 to 1, the penalties -2 to 2, max tokens 1 to 4096.
C17_ParametersWithinRanges ==
  /\ 0 <= parameters.temperature /\ parameters.temperature <= 200
  /\ 0 <= parameters.topP /\ parameters.topP <= 100
  /\ -200 <= parameters.presencePenalty /\ parameters.presencePenalty <= 200
  /\ -200 <= parameters.frequencyPenalty /\ parameters.frequencyPenalty <= 200
  /\ 1 <= parameters.maxTokens /\ parameters.maxTokens <= 4096

(***************************************************************************)
(* The file service.                                                       *)
(***************************************************************************)

\* The file of the session's upload, 10 * 1024 * 1024 bytes, and one byte more.
TenMiB == 10485760

\* processFile and validateFile agree on the file given to processFile.
SameVerdict(file) ==
  ~Get(returned').thrown <=> validateFile(fileUploadEnabled, file).valid

\* With uploads on, the verdicts on a file of a supported type at the size
\* limit and on one a byte over it.
SizeVerdicts(file) ==
  LET validation == validateFile(fileUploadEnabled, file) IN
  fileUploadEnabled /\ isTypeSupported(Extension(file.name))
  => /\ file.size = TenMiB /\ file.readable
        => ~Get(returned').thrown /\ validation.valid
     /\ file.size = TenMiB + 1
        => /\ Get(returned').thrown
           /\ Get(returned').value = [message |-> "File size exceeds 10MB limit"]
           /\ ~validation.valid
           /\ validation.error = Some("File size exceeds 10 MB limit")

\* C18: with uploads on and a supported extension, processFile and
\* validateFile accept a file of exactly 10 MiB whose content can be read
\* and reject a file one byte larger with a size-limit error; and the two
\* give the same verdict on every file whose content can be read.
C18_SizeLimitAndVerdictOfReadableFiles ==
  [][\A i \in DOMAIN picked :
       ProcessFileCall(picked[i])
       => /\ SizeVerdicts(picked[i])
          /\ picked[i].readable => SameVerdict(picked[i])]_vars

\* C18, as stated: the same, and the two give the same verdict on every
\* file.
C18_SizeLimitAndVerdictOfEveryFile ==
  [][\A i \in DOMAIN picked :
       ProcessFileCall(picked[i])
       => /\ SizeVerdicts(picked[i])
          /\ SameVerdict(picked[i])]_vars

\* processFile has returned the file of exactly 10 MiB, chosen together
\* with the one a byte larger.
C18_Witness ==
  /\ fileUploadEnabled
  /\ Len(picked) = 2
  /\ picked[1].size = TenMiB + 1 /\ picked[2].size = TenMiB
  /\ IsSome(returned) /\ Get(returned).operation = "processFile"
  /\ ~Get(returned).thrown
  /\ Get(returned).value.file.name = "full.log"
  /\ Get(returned).value.file.size = TenMiB

\* The lines of a CSV text after its header line.
DataLines(text) == Len(Split(Trim(text), "\n")) - 1
\* The fields of its header line.
HeaderFields(text) == Len(Split(Split(Trim(text), "\n")[1], ","))

\* C19: the ProcessedFile processFile returns for a .csv file has metadata
\* whose rows is the number of data lines, whose columns is the number of
\* header fields and whose preview holds min(rows, 5) row objects; 5, the
\* header count and 5 for a header line with five data rows.
C19_CsvMetadata ==
  [][\A i \in DOMAIN picked :
       /\ ProcessFileCall(picked[i])
       /\ ~Get(returned').thrown
       /\ Extension(picked[i].name) = ".csv"
       => LET metadata == Get(returned').value.file.metadata
              rows == DataLines(picked[i].text)
          IN  /\ metadata # None
              /\ metadata[1].rows = rows
              /\ metadata[1].columns = HeaderFields(picked[i].text)
              /\ Len(metadata[1].preview) = IF rows < 5 THEN rows ELSE 5]_vars

\* The results of the files of a batch that pass processFile, in their order.
Passing(files) ==
  LET passes == SelectSeq(files, LAMBDA file : ~processFile(fileUploadEnabled, file).thrown)
  IN  [i \in DOMAIN passes |-> processFile(fileUploadEnabled, passes[i]).value]

\* C20: processMultipleFiles does not throw and returns, in the order of
\* the input, the ProcessedFiles of exactly the files that pass processFile;
\* addFiles stages these.
C20_BatchKeepsPassingFilesInOrder ==
  [][/\ ProcessMultipleFilesCall(picked)
        => /\ ~Get(returned').thrown
           /\ Get(returned').value = [files |-> Passing(picked)]
     /\ PickFiles => uploadedFiles' = uploadedFiles \o Passing(picked)]_vars

\* A batch of a file that cannot be read and a file that can: the batch
\* call returned the second alone.
C20_Witness ==
  /\ fileUploadEnabled
  /\ Len(picked) = 2
  /\ ~picked[1].readable /\ picked[2].name = "notes.txt"
  /\ IsSome(returned) /\ Get(returned).operation = "processMultipleFiles"
  /\ ~Get(returned).thrown
  /\ Len(Get(returned).value.files) = 1
  /\ Get(returned).value.files[1].name = "notes.txt"

(***************************************************************************)
(* The provider gateway.                                                   *)
(***************************************************************************)

\* The provider names that have a branch of their own, in lower case.
KnownProviders ==
  {"openai", "anthropic", "google", "huggingface", "cohere", "ollama", "groq"}

\* C21: generateResponse settles to a successful response without having
\* made a request whenever real-API mode is off, and whenever it is on and
\* the provider name of the model, in lower case, is none of the seven
\* known ones.  (Every step of the gateway's specification is a call.)
C21_MockWithoutNetwork ==
  [][Get(returned').operation = "generateResponse"
     => LET call == Get(returned').value IN
        ~enableRealAPI \/ ToLowerCase(call.given.model.provider) \notin KnownProviders
        => /\ ~Get(returned').thrown
           /\ call.generated.success
           /\ call.generated.error = None
           /\ call.fetches = 0]_vars

\* Real-API mode is on and the model of the unknown provider "mistral" got
\* a mock response, with usage numbers, without a request.
C21_Witness ==
  /\ enableRealAPI
  /\ IsSome(returned) /\ Get(returned).operation = "generateResponse"
  /\ Get(returned).value.given.model.provider = "mistral"
  /\ Get(returned).value.generated.success
  /\ IsSome(Get(returned).value.generated.usage)
  /\ Get(returned).value.fetches = 0

\* C22: with real-API mode on, a call for a provider that needs a key does
\* not reject; without the key it settles to {success: false, error}
\* having made no request; with the key it makes exactly one request, and
\* on a non-success status it settles to {success: false, error}.
C22_KeyCheckedThenOneRequest ==
  [][Get(returned').operation = "generateResponse" /\ enableRealAPI
     => LET call == Get(returned').value
            provider == ToLowerCase(call.given.model.provider)
        IN  provider \in KnownProviders \ {"ollama"}
            => /\ ~Get(returned').thrown
               /\ ~call.given.keyed
                  => /\ ~call.generated.success
                     /\ call.generated.error # None
                     /\ call.fetches = 0
               /\ call.given.keyed
                  => /\ call.fetches = 1
                     /\ call.given.answer.status = "error"
                        => ~call.generated.success /\ call.generated.error # None]_vars


(***************************************************************************)
(* Sending with staged files.                                              *)
(***************************************************************************)

\* C23: when files are staged, the user message a send appends to the
\* history has the assembled content, the content of the final message
\* handed to the gateway for that send.
C23_HistoryHoldsAssembledContent ==
  [][(/\ SendStep
      /\ Len(uploadedFiles) > 0
      /\ Len(inflight') = Len(inflight) + 1
      /\ Len(messages') = Len(messages) + 1)
     => LET sent == inflight'[Len(inflight')].input IN
        /\ messages'[Len(messages')].role = "user"
        /\ messages'[Len(messages')].content = sent[Len(sent)].content]_vars


(***************************************************************************)
(* Auto-save.                                                              *)
(***************************************************************************)

\* Auto-save and persistence are on and a conversation is active.
AutoSaving == storageEnabled /\ settings.autoSave /\ IsSome(currentConversationId)

\* The store holds the active conversation with exactly the message list
\* in memory.
StoredListIsCurrent ==
  \E i \in DOMAIN store :
    /\ IsSome(currentConversationId)
    /\ store[i].id = Get(currentConversationId)
    /\ store[i].messages = [j \in DOMAIN messages |-> StringifyMessage(messages[j])]

\* C24: with auto-save and persistence on and a conversation active, once
\* the message list is left alone the stored conversation comes to hold
\* exactly the message list in memory, whatever the change was (append,
\* edit, delete down to the empty list, truncation by regenerate).
C24_StoreCatchesUpWithMessages ==
  [](AutoSaving => <>(StoredListIsCurrent \/ ~AutoSaving))

\* A save is pending only under the conditions of the effect, and for the
\* list, the conversation and the flag of the current render.
PendingSaveIsCurrent ==
  IsSome(saveTimer)
  => /\ settings.autoSave
     /\ IsSome(currentConversationId)
     /\ Get(saveTimer).currentConversationId = currentConversationId
     /\ Get(saveTimer).messages = messages

\* C25: the one pending auto-save belongs to the latest change of the
\* message list, the active conversation and the auto-save flag; when it
\* fires, auto-save is on and a conversation is active, it writes the
\* latest message list, and no further save is pending.
C25_OnePendingSaveOfLatestList ==
  [][/\ PendingSaveIsCurrent'
     /\ AutoSave
        => /\ settings.autoSave /\ IsSome(currentConversationId)
           /\ saveTimer' = None
           /\ storageEnabled => StoredListIsCurrent']_vars

\* Two changes of the list in a row (a message deleted, another edited)
\* were followed by a single save, which wrote the list of one edited
\* message.
C25_Witness ==
  /\ AutoSaving
  /\ saveTimer = None
  /\ Len(messages) = 1 /\ messages[1].content = "Thanks"
  /\ StoredListIsCurrent


(***************************************************************************)
(* Requests in flight.                                                     *)
(***************************************************************************)

\* C26: through the chat area at most one request of the gateway is in
\* flight, and isGenerating is true while one is.
C26_OneRequestInFlight ==
  /\ Len(inflight) <= 1
  /\ Len(inflight) > 0 => isGenerating


\* C27: a reply is appended only to the message list of the conversation
\* that was active when its request was sent: when another conversation,
\* or none, is active as the answer arrives, the list is left as it is.
C27_ReplyStaysWithItsConversation ==
  [][(/\ Len(inflight) = 1
      /\ Len(inflight') = 0
      /\ IsSome(inflight[1].call.currentConversationId)
      /\ currentConversationId # inflight[1].call.currentConversationId)
     => messages' = messages]_vars


(***************************************************************************)
(* Renaming while a save is pending.                                       *)
(***************************************************************************)

\* The conversation id is in the list, under the title.
Titled(list, id, title) ==
  \E i \in DOMAIN list : list[i].id = id /\ list[i].title = title

\* C28: once a conversation has been renamed to "Trip", the only title the
\* sessions rename to, it has that title in memory, and in the store where
\* persistence is on, after every later step, the firing of an auto-save
\* that was pending at the rename included.
C28_RenamedTitleStays ==
  [][\A id \in StoredIds :
       Titled(conversations, id, "Trip")
       => /\ Titled(conversations', id, "Trip")
          /\ storageEnabled => Titled(store', id, "Trip")]_vars


(***************************************************************************)
(* Settings.                                                               *)
(***************************************************************************)

\* C29: with persistence on, the parameters of the persisted settings are
\* the parameters in memory, also after an updateSettings that sets only
\* flags, so that loading the page anew restores them.
C29_PersistedParametersAreCurrent ==
  storageEnabled => GetSettings(storageEnabled, settingsStore).parameters = parameters


(***************************************************************************)
(* What a regeneration removes.                                            *)
(***************************************************************************)

\* C30: a regeneration that goes to the gateway removes the most recent
\* assistant message and nothing else: the messages before it and the
\* messages after it are still there, in their order.
C30_RegenerateRemovesOneMessage ==
  [][(Regenerate /\ Len(inflight') = Len(inflight) + 1)
     => LET k == LastAssistant(messages) IN
        messages' = SubSeq(messages, 1, k - 1) \o SubSeq(messages, k + 1, Len(messages))]_vars

==========================================================================
